---------------------------- MODULE Spec2Model ----------------------------
(***************************************************************************)
(* Verification model of the tango log-parsing core: format parsers, the   *)
(* format classifier cascade, the per-source format cache, the TangoParser *)
(* dispatcher, the streaming engine and the parallel engine's shared cache.*)
(*                                                                         *)
(* A log line is represented by the outcome each regex / serde call of the *)
(* parsers has on it (Lines below); every parser and the classifier are    *)
(* then computed from those outcomes exactly as the code computes them.    *)
(* Strings that the code inspects character by character (source names and *)
(* profile patterns) are sequences of one-character strings.               *)
(***************************************************************************)
EXTENDS Integers, Sequences, FiniteSets, TLC

(***************************************************************************)
(* Bounds of the model.                                                    *)
(***************************************************************************)
MaxOps == 2            \* dispatches per behaviour of the dispatcher
MaxClock == 1          \* seconds the wall clock may advance
MaxPairs == 5          \* key=value occurrences a line may hold in Lines
MaxStreamLines == 4    \* lines a reader may deliver
MaxLineLen == 2        \* bytes of a delivered line after newline stripping
MaxWorkItems == 3      \* work items the parallel workers take in total
NumWorkers == 2        \* worker threads of the parallel engine
MaxBatchSize == 2      \* largest configured streaming batch size
MaxMemoryLimit == 3    \* largest configured streaming memory budget, bytes
MaxQueueLines == 3     \* lines handed to parse_lines_producer_consumer
MaxQueueCapacity == 1  \* largest queue_capacity
NumStreams == 2        \* streams handed to parse_streams_parallel
MaxParStreamLines == 2 \* lines each of those streams may deliver
MaxChunkLen == 2       \* characters of a line before its terminator
MaxResilientLines == 3 \* longest vector handed to ResilientParser::parse_lines
MaxResilientCalls == 1 \* parse_lines calls on one ResilientParser
MaxMonitorCalls == 3   \* calls made on one StatisticsMonitor
MaxMicros == 1         \* largest processing time handed to a record call
MaxCacheOps == 4       \* operations applied directly to one FormatCache
MaxLockOps == 2        \* operations each thread starts on the locked structures
MaxProfiles == 2       \* profiles in a configuration

(***************************************************************************)
(* Program constants.                                                      *)
(***************************************************************************)
LogfmtRequiredPairs == 3
LogfmtHighConfidencePairs == 5
EvictDivisor == 4

(***************************************************************************)
(* Confidence values are f64 in the code.  They are kept exactly as        *)
(* integers in units of 1 / (100 * ConfUnit): a percentage times ConfUnit, *)
(* where ConfUnit leaves room for every halving a behaviour can perform.   *)
(***************************************************************************)
ConfUnit == 2 ^ (MaxOps + MaxWorkItems)
Conf(pct) == pct * ConfUnit

Max2(a, b) == IF a >= b THEN a ELSE b
Min2(a, b) == IF a <= b THEN a ELSE b

(***************************************************************************)
(* Format tags (models.rs FormatType / ProfileType).                       *)
(***************************************************************************)
ProfileTypes == {"Regex", "Csv", "Apache", "Nginx", "Syslog"}
ProfileTag(t) == "Profile" \o t
ProfileTags == {ProfileTag(t) : t \in ProfileTypes}
FormatTypes == {"Json", "Logfmt", "Pattern", "TimestampLevel", "PlainText"} \cup ProfileTags

NoError == "none"
ErrorKinds == {"JsonSyntaxError", "JsonNotObject", "LogfmtInsufficientPairs",
               "PatternMatchError", "GenericError"}

(***************************************************************************)
(* Lines.  Each field is the outcome of one inspection the code performs:  *)
(*   brace   line.trim() starts with '{'                                   *)
(*   json    serde_json::from_str: "object", "other" (valid, not an        *)
(*           object) or "invalid"                                          *)
(*   jsonTs  the JSON object carries a parseable timestamp key             *)
(*   pat     the pattern-parser regex that matches the line ("none" or one *)
(*           of the four sub-patterns; their first characters exclude each *)
(*           other, so at most one matches)                                *)
(*   patOk   the matched sub-pattern's timestamp and level also parse      *)
(*   hasTZ   line contains 'T' and ('Z' or '+')                            *)
(*   hasBr   line contains '[' and ']'                                     *)
(*   kv      number of key=value regex matches (find_iter count)           *)
(*   keys    number of distinct keys among them (HashMap len)              *)
(*   plain   confidence the plain-text parser reports, in percent          *)
(*   prof    the profile grammar that matches the line, or "none"          *)
(***************************************************************************)
PatternKinds == {"android", "bracketed", "space", "syslog"}
PlainConfidences == {10, 20, 30, 40, 50}
LineProfiles == {"none", "Regex", "Apache"}

LineWellFormed(l) ==
    /\ (l.json = "object") => l.brace            \* an object starts with '{'
    /\ (l.brace /\ l.json # "object") => l.json = "invalid"
    /\ l.jsonTs => l.json = "object"
    /\ l.patOk => l.pat # "none"
    /\ (l.brace \/ l.json # "invalid") => l.pat = "none"  \* ^\[, ^\d, ^[A-Za-z]{3}\s
    /\ l.keys <= l.kv
    /\ (l.kv > 0) => (l.keys > 0)
    /\ (l.pat = "bracketed") => l.hasBr

Lines ==
    { l \in [brace : BOOLEAN, json : {"object", "other", "invalid"}, jsonTs : BOOLEAN,
             pat : PatternKinds \cup {"none"}, patOk : BOOLEAN,
             hasTZ : BOOLEAN, hasBr : BOOLEAN,
             kv : 0..MaxPairs, keys : 0..MaxPairs,
             plain : PlainConfidences, prof : LineProfiles] : LineWellFormed(l) }

(***************************************************************************)
(* ParseResult / CanonicalEvent (parse_result.rs, models.rs).  parse_error *)
(* is the tri-state Option<bool>: "unset" or TRUE.                         *)
(***************************************************************************)
NoLineNumber == 0

Success(line, format, confidence) ==
    [success |-> TRUE, format_type |-> format, parse_error |-> "unset",
     error |-> NoError, confidence |-> confidence, line_number |-> NoLineNumber,
     raw |-> line]

\* the failed result without the event's parse_error mark
Failure_unmarked(line, error) ==
    [success |-> FALSE, format_type |-> "PlainText", parse_error |-> "unset",
     error |-> error, confidence |-> 0, line_number |-> NoLineNumber,
     raw |-> line]

Failure(line, error) ==
    [success |-> FALSE, format_type |-> "PlainText", parse_error |-> "true",
     error |-> error, confidence |-> 0, line_number |-> NoLineNumber,
     raw |-> line]

with_line_number(result, n) == [result EXCEPT !.line_number = n]

(***************************************************************************)
(* Format parsers (parsers/*.rs).                                          *)
(***************************************************************************)
JsonCanParse(l) == l.brace /\ l.json # "invalid"

JsonParse(l) ==
    CASE l.json = "object" -> Success(l, "Json", Conf(95))
      [] l.json = "other"  -> Failure(l, "JsonNotObject")
      [] OTHER             -> Failure(l, "JsonSyntaxError")

LogfmtCanParse(l) == l.kv >= LogfmtRequiredPairs

LogfmtParse(l) ==
    IF l.keys < LogfmtRequiredPairs
    THEN Failure(l, "LogfmtInsufficientPairs")
    ELSE Success(l, "Logfmt",
                 IF l.keys >= LogfmtHighConfidencePairs THEN Conf(90) ELSE Conf(70))

PatternCanParse(l) == l.pat # "none"

PatternConfidence(kind) ==
    CASE kind = "android"   -> Conf(90)
      [] kind = "bracketed" -> Conf(85)
      [] kind = "space"     -> Conf(80)
      [] OTHER              -> Conf(75)

PatternParse(l) ==
    IF l.pat # "none" /\ l.patOk
    THEN Success(l, "Pattern", PatternConfidence(l.pat))
    ELSE Failure(l, "PatternMatchError")

\* every successful pattern event has its timestamp set (all four branches)
PatternTimestamp(l) == l.pat # "none" /\ l.patOk

PlainTextParse(l) == Success(l, "PlainText", Conf(l.plain))

ProfileParse(ptype, l) ==
    IF ptype = "Csv" \/ l.prof = ptype
    THEN Success(l, ProfileTag(ptype), IF ptype = "Csv" THEN Conf(85) ELSE Conf(90))
    ELSE Failure(l, "PatternMatchError")


(***************************************************************************)
(* Format classifier cascade (classifier.rs).                              *)
(***************************************************************************)
NoTimestampFormat == "none"

JsonFieldMappings ==
    { <<"timestamp_fields", "ts,time,timestamp,@timestamp">>,
      <<"level_fields", "level,severity,lvl,log.level">>,
      <<"message_fields", "msg,message,log.message">> }

LogfmtFieldMappings ==
    { <<"timestamp_fields", "ts,time,timestamp">>,
      <<"level_fields", "level,severity,lvl">>,
      <<"message_fields", "msg,message">> }

PatternFieldMappings == { <<"pattern_type", "timestamp_level">> }

PatternTimestampFormat(l) ==
    IF l.hasTZ THEN "ISO8601"
    ELSE IF l.hasBr THEN "bracketed"
    ELSE "space_separated"

Detection(format, confidence, tsf, mappings) ==
    [format_type |-> format, confidence |-> confidence,
     timestamp_format |-> tsf, field_mappings |-> mappings]

\* the cascade in the order of the parallel engine's fallback chain
detect_format_internal_logfmt_first(l) ==
    IF l.brace /\ JsonCanParse(l) /\ JsonParse(l).success
    THEN Detection("Json", JsonParse(l).confidence,
                   IF l.jsonTs THEN "ISO8601" ELSE NoTimestampFormat,
                   JsonFieldMappings)
    ELSE IF LogfmtCanParse(l) /\ LogfmtParse(l).success
    THEN Detection("Logfmt", LogfmtParse(l).confidence,
                   NoTimestampFormat, LogfmtFieldMappings)
    ELSE IF PatternCanParse(l) /\ PatternParse(l).success
    THEN Detection("TimestampLevel", PatternParse(l).confidence,
                   IF PatternTimestamp(l) THEN PatternTimestampFormat(l)
                                          ELSE NoTimestampFormat,
                   PatternFieldMappings)
    ELSE Detection("PlainText", Conf(10), NoTimestampFormat, {})

detect_format_internal(l) ==
    IF l.brace /\ JsonCanParse(l) /\ JsonParse(l).success
    THEN Detection("Json", JsonParse(l).confidence,
                   IF l.jsonTs THEN "ISO8601" ELSE NoTimestampFormat,
                   JsonFieldMappings)
    ELSE IF PatternCanParse(l) /\ PatternParse(l).success /\ PatternTimestamp(l)
    THEN Detection("TimestampLevel", PatternParse(l).confidence,
                   PatternTimestampFormat(l), PatternFieldMappings)
    ELSE IF LogfmtCanParse(l) /\ LogfmtParse(l).success
    THEN Detection("Logfmt", LogfmtParse(l).confidence,
                   NoTimestampFormat, LogfmtFieldMappings)
    ELSE IF PatternCanParse(l) /\ PatternParse(l).success
    THEN Detection("TimestampLevel", PatternParse(l).confidence,
                   IF PatternTimestamp(l) THEN PatternTimestampFormat(l)
                                          ELSE NoTimestampFormat,
                   PatternFieldMappings)
    ELSE Detection("PlainText", Conf(10), NoTimestampFormat, {})

detect_format(l) == detect_format_internal(l).format_type

(***************************************************************************)
(* Format cache (classifier.rs FormatCache).  The HashMap is a set of      *)
(* entries that carry their key; insert replaces the entry of the key.     *)
(***************************************************************************)
FormatCacheEntry_new(source, format, confidence, now) ==
    [source |-> source, format_type |-> format, confidence |-> confidence,
     timestamp_format |-> NoTimestampFormat, field_mappings |-> {},
     last_updated |-> now, sample_count |-> 1]

update(e, confidence, now) ==
    [e EXCEPT !.confidence = (e.confidence + confidence) \div 2,
              !.last_updated = now,
              !.sample_count = e.sample_count + 1]

MergeMappings(old, new) ==
    new \cup { p \in old : \A q \in new : q[1] # p[1] }

update_with_metadata(e, confidence, tsf, mappings, now) ==
    [update(e, confidence, now) EXCEPT
        !.timestamp_format = IF tsf # NoTimestampFormat THEN tsf ELSE e.timestamp_format,
        !.field_mappings = MergeMappings(e.field_mappings, mappings)]

\* staleness by age alone
is_stale_by_age(e, max_age_seconds, min_samples_for_stability, now) ==
    now - e.last_updated > max_age_seconds

is_stale(e, max_age_seconds, min_samples_for_stability, now) ==
    /\ now - e.last_updated > max_age_seconds
    /\ e.sample_count < min_samples_for_stability

with_settings(max_entries, max_age_seconds, min_samples_for_stability) ==
    [cache |-> {}, max_entries |-> max_entries, max_age_seconds |-> max_age_seconds,
     min_samples_for_stability |-> min_samples_for_stability,
     cache_hits |-> 0, cache_misses |-> 0, cache_evictions |-> 0]

HasKey(entries, source) == \E e \in entries : e.source = source
Lookup(entries, source) == CHOOSE e \in entries : e.source = source
Remove(entries, source) == { e \in entries : e.source # source }
Insert(entries, e) == Remove(entries, e.source) \cup {e}

NoEntry == [source |-> << >>, format_type |-> "PlainText", confidence |-> 0,
            timestamp_format |-> NoTimestampFormat, field_mappings |-> {},
            last_updated |-> 0, sample_count |-> 0]

\* a get whose hit counter update is lost
FormatCache_get_lost_hit(c, source, now) ==
    IF HasKey(c.cache, source)
       /\ is_stale(Lookup(c.cache, source), c.max_age_seconds,
                   c.min_samples_for_stability, now)
    THEN [cache |-> [c EXCEPT !.cache = Remove(c.cache, source),
                              !.cache_evictions = c.cache_evictions + 1,
                              !.cache_misses = c.cache_misses + 1],
          hit |-> FALSE, entry |-> NoEntry]
    ELSE IF HasKey(c.cache, source)
    THEN [cache |-> c, hit |-> TRUE, entry |-> Lookup(c.cache, source)]
    ELSE [cache |-> [c EXCEPT !.cache_misses = c.cache_misses + 1],
          hit |-> FALSE, entry |-> NoEntry]

\* get: the cache after the call, whether it was a hit, and the entry returned
FormatCache_get(c, source, now) ==
    IF HasKey(c.cache, source)
       /\ is_stale(Lookup(c.cache, source), c.max_age_seconds,
                   c.min_samples_for_stability, now)
    THEN [cache |-> [c EXCEPT !.cache = Remove(c.cache, source),
                              !.cache_evictions = c.cache_evictions + 1,
                              !.cache_misses = c.cache_misses + 1],
          hit |-> FALSE, entry |-> NoEntry]
    ELSE IF HasKey(c.cache, source)
    THEN [cache |-> [c EXCEPT !.cache_hits = c.cache_hits + 1],
          hit |-> TRUE, entry |-> Lookup(c.cache, source)]
    ELSE [cache |-> [c EXCEPT !.cache_misses = c.cache_misses + 1],
          hit |-> FALSE, entry |-> NoEntry]

\* eviction from the wrong end of the sorted list: the newest entries go
evict_newest_entries(c) ==
    LET evict_count == Max2(1, c.max_entries \div EvictDivisor)
        n == Min2(evict_count, Cardinality(c.cache))
        newer(t) == { e \in c.cache : e.last_updated > t }
        from(t) == { e \in c.cache : e.last_updated >= t }
        cut == CHOOSE t \in { e.last_updated : e \in c.cache } :
                  Cardinality(newer(t)) < n /\ n <= Cardinality(from(t))
    IN IF n = 0 THEN {c}
       ELSE { [c EXCEPT !.cache = c.cache \ (newer(cut) \cup S),
                        !.cache_evictions = c.cache_evictions + n] :
                S \in { T \in SUBSET (from(cut) \ newer(cut)) :
                          Cardinality(T) = n - Cardinality(newer(cut)) } }

\* evict_oldest_entries: the first evict_count entries of the list sorted by
\* last_updated; entries of equal age come in the map's iteration order, so
\* any choice among them is possible.  The result is the set of possible caches.
\* cut is the last_updated of the last entry taken from the sorted list.
evict_oldest_entries(c) ==
    LET evict_count == Max2(1, c.max_entries \div EvictDivisor)
        n == Min2(evict_count, Cardinality(c.cache))
        older(t) == { e \in c.cache : e.last_updated < t }
        upto(t) == { e \in c.cache : e.last_updated <= t }
        cut == CHOOSE t \in { e.last_updated : e \in c.cache } :
                  Cardinality(older(t)) < n /\ n <= Cardinality(upto(t))
    IN IF n = 0 THEN {c}
       ELSE { [c EXCEPT !.cache = c.cache \ (older(cut) \cup S),
                        !.cache_evictions = c.cache_evictions + n] :
                S \in { T \in SUBSET (upto(cut) \ older(cut)) :
                          Cardinality(T) = n - Cardinality(older(cut)) } }

PutEntry(c, source, format, confidence, tsf, mappings, now) ==
    IF HasKey(c.cache, source)
    THEN [c EXCEPT !.cache = Insert(c.cache,
             update_with_metadata([Lookup(c.cache, source) EXCEPT !.format_type = format],
                                  confidence, tsf, mappings, now))]
    ELSE [c EXCEPT !.cache = Insert(c.cache,
             [FormatCacheEntry_new(source, format, confidence, now) EXCEPT
                 !.timestamp_format = tsf, !.field_mappings = mappings])]

\* put: the set of caches the call can leave
FormatCache_put(c, source, format, confidence, tsf, mappings, now) ==
    { PutEntry(c1, source, format, confidence, tsf, mappings, now) :
        c1 \in (IF Cardinality(c.cache) >= c.max_entries
                THEN evict_oldest_entries(c) ELSE {c}) }

FormatCache_clear(c) ==
    [c EXCEPT !.cache = {}, !.cache_evictions = c.cache_evictions + Cardinality(c.cache)]

\* adapt_parameters thresholds
AdaptMaxEntriesCap == 5000
AdaptMinEntries == 100
AdaptMaxAgeCap == 7200

\* adapt_parameters: the f64 rates are compared as fractions, the f64
\* products are truncated by the cast back to an integer
adapt_parameters(c) ==
    LET total == c.cache_hits + c.cache_misses
        low == total = 0 \/ 10 * c.cache_hits < 7 * total
        high == total > 0 /\ 100 * c.cache_hits > 95 * total
        churn == total > 0 /\ 10 * c.cache_evictions > total
        grown == IF low /\ c.max_entries < AdaptMaxEntriesCap
                 THEN (c.max_entries * 12) \div 10 ELSE c.max_entries
        shrunk == IF high /\ grown > AdaptMinEntries
                  THEN (grown * 9) \div 10 ELSE grown
    IN [c EXCEPT !.max_entries = shrunk,
                 !.max_age_seconds = IF churn /\ c.max_age_seconds < AdaptMaxAgeCap
                                     THEN (c.max_age_seconds * 11) \div 10
                                     ELSE c.max_age_seconds]

\* a lookup that counts the hit but answers with a fresh detection
detect_format_with_caching_redetect(c, l, source, now) ==
    LET g == FormatCache_get(c, source, now)
        d == detect_format_internal(l)
    IN IF g.hit
       THEN { [cache |-> g.cache, format_type |-> d.format_type, hit |-> TRUE] }
       ELSE { [cache |-> c2, format_type |-> d.format_type, hit |-> FALSE] :
                c2 \in FormatCache_put(g.cache, source, d.format_type, d.confidence,
                                       d.timestamp_format, d.field_mappings, now) }

\* detect_format_with_caching: the possible (cache, format, hit) outcomes
detect_format_with_caching(c, l, source, now) ==
    LET g == FormatCache_get(c, source, now)
        d == detect_format_internal(l)
    IN IF g.hit
       THEN { [cache |-> g.cache, format_type |-> g.entry.format_type, hit |-> TRUE] }
       ELSE { [cache |-> c2, format_type |-> d.format_type, hit |-> FALSE] :
                c2 \in FormatCache_put(g.cache, source, d.format_type, d.confidence,
                                       d.timestamp_format, d.field_mappings, now) }

\* cache_format: the caches a put of the tag with the default metadata leaves
cache_format(c, source, format, now) ==
    FormatCache_put(c, source, format, Conf(80),
                    CASE format = "Json" -> "ISO8601"
                      [] format = "Logfmt" -> "logfmt_inferred"
                      [] format = "TimestampLevel" -> "pattern_inferred"
                      [] OTHER -> NoTimestampFormat,
                    CASE format = "Json" -> JsonFieldMappings
                      [] format = "Logfmt" -> LogfmtFieldMappings
                      [] format = "TimestampLevel" -> PatternFieldMappings
                      [] OTHER -> {},
                    now)


(***************************************************************************)
(* Profile selection (tango_parser.rs).  profile_parsers is the HashMap in *)
(* its iteration order: a sequence of [name, ptype] with distinct names.   *)
(***************************************************************************)
Contains(str, ch) == \E i \in 1..Len(str) : str[i] = ch

StartsWith(str, prefix) ==
    /\ Len(prefix) <= Len(str)
    /\ SubSeq(str, 1, Len(prefix)) = prefix

EndsWith(str, suffix) ==
    /\ Len(suffix) <= Len(str)
    /\ SubSeq(str, Len(str) - Len(suffix) + 1, Len(str)) = suffix

source_matches_pattern(source, pattern) ==
    IF Contains(pattern, "*") /\ pattern[1] = "*" /\ Len(pattern) > 1
    THEN EndsWith(source, SubSeq(pattern, 2, Len(pattern)))
    ELSE IF Contains(pattern, "*") /\ pattern[Len(pattern)] = "*" /\ Len(pattern) > 1
    THEN StartsWith(source, SubSeq(pattern, 1, Len(pattern) - 1))
    ELSE source = pattern

NoProfile == 0

\* profile selection that knows exact names only
get_profile_parser_for_source_exact_only(pp, source) ==
    IF \E i \in 1..Len(pp) : pp[i].name = source
    THEN CHOOSE i \in 1..Len(pp) : pp[i].name = source
    ELSE NoProfile

\* index into profile_parsers of the parser chosen for the source, or NoProfile
get_profile_parser_for_source(pp, source) ==
    IF \E i \in 1..Len(pp) : pp[i].name = source
    THEN CHOOSE i \in 1..Len(pp) : pp[i].name = source
    ELSE IF \E i \in 1..Len(pp) : source_matches_pattern(source, pp[i].name)
    THEN CHOOSE i \in 1..Len(pp) :
            /\ source_matches_pattern(source, pp[i].name)
            /\ \A j \in 1..(i - 1) : ~source_matches_pattern(source, pp[j].name)
    ELSE NoProfile

(***************************************************************************)
(* Statistics (statistics.rs ParsingStatistics), counters and              *)
(* distributions; a missing HashMap key reads as 0.                        *)
(***************************************************************************)
ParsingStatistics_new ==
    [total_lines |-> 0, successful_parses |-> 0, failed_parses |-> 0,
     plain_text_fallbacks |-> 0,
     format_distribution |-> [f \in FormatTypes |-> 0],
     error_distribution |-> [k \in ErrorKinds |-> 0]]

record_success(st, format) ==
    [st EXCEPT !.total_lines = @ + 1, !.successful_parses = @ + 1,
               !.format_distribution[format] = @ + 1]

record_failure(st, error) ==
    [st EXCEPT !.total_lines = @ + 1, !.failed_parses = @ + 1,
               !.error_distribution[error] = @ + 1]

\* a fallback that is not counted as a successful parse
record_plain_text_fallback_uncounted(st) ==
    [st EXCEPT !.total_lines = @ + 1, !.plain_text_fallbacks = @ + 1,
               !.format_distribution["PlainText"] = @ + 1]

record_plain_text_fallback(st) ==
    [st EXCEPT !.total_lines = @ + 1, !.successful_parses = @ + 1,
               !.plain_text_fallbacks = @ + 1,
               !.format_distribution["PlainText"] = @ + 1]

\* TangoParser::record_statistics
record_statistics(enabled, st, result) ==
    IF ~enabled THEN st
    ELSE IF result.success THEN record_success(st, result.format_type)
    ELSE IF result.error # NoError THEN record_failure(st, result.error)
    ELSE record_failure(st, "GenericError")

(***************************************************************************)
(* The parser a format tag selects (the match in parse_line_with_source    *)
(* and get_parser of the streaming and parallel structures).               *)
(***************************************************************************)
\* a selection that hands a Profile tag to the profile's own parser
ParseWith_profile_tag(format, l) ==
    CASE format = "Json" -> JsonParse(l)
      [] format = "Logfmt" -> LogfmtParse(l)
      [] format \in {"TimestampLevel", "Pattern"} -> PatternParse(l)
      [] format \in ProfileTags ->
            ProfileParse(CHOOSE t \in ProfileTypes : ProfileTag(t) = format, l)
      [] OTHER -> PlainTextParse(l)

ParseWith(format, l) ==
    CASE format = "Json" -> JsonParse(l)
      [] format = "Logfmt" -> LogfmtParse(l)
      [] format \in {"TimestampLevel", "Pattern"} -> PatternParse(l)
      [] OTHER -> PlainTextParse(l)

(***************************************************************************)
(* TangoParser::parse_line_with_source: the set of outcomes of one call on *)
(* a parser with the given configuration, profiles, cache and statistics.  *)
(***************************************************************************)
Outcome(cache, st, result, profile, classified, hit, format) ==
    [format_cache |-> cache, stats |-> st, result |-> result,
     profile |-> profile, classified |-> classified, hit |-> hit, format |-> format]

parse_line_with_source(cfg, pp, cache, st, l, source, now) ==
    LET p == get_profile_parser_for_source(pp, source)
    IN IF p # NoProfile
       THEN LET r == ProfileParse(pp[p].ptype, l)
            IN { Outcome(cache, record_statistics(cfg.enable_statistics, st, r), r,
                         p, FALSE, FALSE, ProfileTag(pp[p].ptype)) }
       ELSE IF cfg.enable_format_caching
       THEN { Outcome(d.cache,
                      record_statistics(cfg.enable_statistics, st,
                                        ParseWith(d.format_type, l)),
                      ParseWith(d.format_type, l), NoProfile, TRUE, d.hit,
                      d.format_type) :
                d \in detect_format_with_caching(cache, l, source, now) }
       ELSE { Outcome(cache,
                      record_statistics(cfg.enable_statistics, st,
                                        ParseWith(detect_format(l), l)),
                      ParseWith(detect_format(l), l), NoProfile, TRUE, FALSE,
                      detect_format(l)) }


(***************************************************************************)
(* Input corpus of the engines: the lines of the specification's scenarios *)
(* and of the repository's tests, as their parser outcomes.                *)
(***************************************************************************)
Line(brace, json, jsonTs, pat, patOk, hasTZ, hasBr, kv, keys, plain, prof) ==
    [brace |-> brace, json |-> json, jsonTs |-> jsonTs, pat |-> pat, patOk |-> patOk,
     hasTZ |-> hasTZ, hasBr |-> hasBr, kv |-> kv, keys |-> keys, plain |-> plain,
     prof |-> prof]

\* {"timestamp":"2025-12-30T10:21:03Z","level":"INFO","message":"User login","user_id":42}
JsonLine == Line(TRUE, "object", TRUE, "none", FALSE, TRUE, FALSE, 0, 0, 40, "none")
\* {"incomplete": json
MalformedJsonLine == Line(TRUE, "invalid", FALSE, "none", FALSE, FALSE, FALSE, 0, 0, 10, "none")
\* [1,2,3]
JsonArrayLine == Line(FALSE, "other", FALSE, "none", FALSE, FALSE, TRUE, 0, 0, 10, "none")
\* level=INFO msg=test user=admin
LogfmtLine == Line(FALSE, "invalid", FALSE, "none", FALSE, FALSE, FALSE, 3, 3, 20, "none")
\* key=value another=pair
TwoPairLine == Line(FALSE, "invalid", FALSE, "none", FALSE, FALSE, FALSE, 2, 2, 20, "none")
\* a=1 a=2 a=3
RepeatedKeyLine == Line(FALSE, "invalid", FALSE, "none", FALSE, FALSE, FALSE, 3, 1, 20, "none")
\* [2025-12-29T10:21:03Z] [WARN] Memory high
BracketedLine == Line(FALSE, "invalid", FALSE, "bracketed", TRUE, TRUE, TRUE, 0, 0, 50, "none")
\* [malformed] [x] a=1 b=2 c=3
BadBracketedLine == Line(FALSE, "invalid", FALSE, "bracketed", FALSE, FALSE, TRUE, 3, 3, 20, "none")
\* Jun 14 15:16:01 combo sshd(pam_unix)[19939]: check pass; uid=0 euid=0 tty=NODEVssh
SyslogLine == Line(FALSE, "invalid", FALSE, "syslog", TRUE, FALSE, TRUE, 3, 3, 20, "none")
\* Plain text with no structure
PlainLine == Line(FALSE, "invalid", FALSE, "none", FALSE, FALSE, FALSE, 0, 0, 10, "none")
\* 127.0.0.1 - - [10/Oct/2000:13:55:36 -0700] "GET /index.html HTTP/1.0" 200 2326
ApacheLine == Line(FALSE, "invalid", FALSE, "none", FALSE, FALSE, TRUE, 0, 0, 20, "Apache")
\* 2025-12-30T10:21:03Z [INFO] Test message   (the regex profile of the tests)
RegexProfileLine == Line(FALSE, "invalid", FALSE, "none", FALSE, TRUE, TRUE, 0, 0, 40, "Regex")

Corpus == {JsonLine, MalformedJsonLine, JsonArrayLine, LogfmtLine, TwoPairLine,
           RepeatedKeyLine, BracketedLine, BadBracketedLine, SyslogLine, PlainLine,
           ApacheLine, RegexProfileLine}

(***************************************************************************)
(* Sources and profile configurations.                                     *)
(***************************************************************************)
SrcA == <<"a">>
SrcAB == <<"a", "b">>
SrcC == <<"c">>
Sources == {SrcA, SrcAB, SrcC}

ProfileEntries ==
    { [name |-> <<"a", "b">>, ptype |-> "Regex"],
      [name |-> <<"a", "*">>, ptype |-> "Apache"],
      [name |-> <<"*", "b">>, ptype |-> "Csv"] }

ProfileConfigs ==
    { pp \in UNION { [1..n -> ProfileEntries] : n \in 0..MaxProfiles } :
        \A i, j \in 1..Len(pp) : i # j => pp[i].name # pp[j].name }

\* cache settings handed to with_config in the model's configurations
CacheMaxEntries == 1
CacheMaxAge == 0
CacheMinSamples == 2

(***************************************************************************)
(* State.                                                                  *)
(***************************************************************************)
VARIABLES
    config,            \* TangoParser.config (the switches the dispatcher reads)
    profile_parsers,   \* TangoParser.profile_parsers, in iteration order
    format_cache,      \* TangoParser.classifier.format_cache
    stats,             \* TangoParser.statistics_monitor's statistics
    now,               \* wall clock, seconds
    result,            \* the ParseResult returned by the last dispatch
    call,              \* the last dispatch: its inputs and what it consulted
    run,               \* successive dispatches of one format for one source
    ops                \* number of dispatches so far

dvars == <<config, profile_parsers, format_cache, stats, now, result, call, run, ops>>

\* the classifier applied to one line
VARIABLES
    cline,             \* the line handed to detect_format
    cformat            \* the format it returned, "pending" before the call

cvars == <<cline, cformat>>

\* the streaming engine and parse_reader
VARIABLES
    sconfig,               \* StreamingParser.config
    current_memory_usage,  \* StreamingParser.current_memory_usage
    sstats,                \* StreamingParser.statistics_monitor's statistics
    spc,                   \* "idle", "reading", "ok" (returned Ok) or "err" (returned Err)
    ssource,               \* source argument of parse_reader
    input,                 \* items the reader has delivered so far
    batch,                 \* parse_stream's batch
    line_number,           \* parse_stream's line_number
    results,               \* results vector of the call
    flushed                \* which kinds of batch flush the call has performed

svars == <<sconfig, current_memory_usage, sstats, spc, ssource, input, batch,
           line_number, results, flushed>>

\* the parallel engine
VARIABLES
    shared_cache,      \* ParallelParser.shared_cache
    workers,           \* per worker thread: position, current work item, hits seen
    taken,             \* work items handed out so far
    identical          \* every work item so far was the same JSON line of one source

pvars == <<shared_cache, workers, taken, identical>>

\* the work-queue engine (parse_lines_producer_consumer)
VARIABLES
    qconfig,           \* ParallelConfig: queue_capacity and num_threads
    qlines,            \* the lines argument
    producer,          \* producer thread: index of the next line and position
    work_queue,        \* items in the bounded work channel
    result_queue,      \* results in the bounded result channel
    collected,         \* results vector of the collecting caller
    collector          \* position of the collecting caller

qvars == <<qconfig, qlines, producer, work_queue, result_queue, collected, collector>>

\* parse_streams_parallel
VARIABLES
    pstreams,          \* per stream: source, lines read, line_number, results, position
    poutput            \* the value parse_streams_parallel returned, "pending" before

tvars == <<pstreams, poutput>>

\* direct operations on one FormatCache (held in format_cache)
VARIABLES
    kop,               \* the last cache operation and its arguments
    kops               \* number of cache operations so far

kvars == <<kop, kops>>

\* lock discipline of the shared cache
VARIABLES
    cache_lock,        \* the RwLock around the shared cache: writer and readers
    stats_mutex,       \* holder of the Mutex around global_statistics
    lthreads           \* per thread: position and the operation in progress

lvars == <<cache_lock, stats_mutex, lthreads>>

\* one StatisticsMonitor under direct calls
VARIABLES
    monitor,           \* the StatisticsMonitor
    mlog               \* calls since construction or reset, the last call, the monitor before it

mvars == <<monitor, mlog>>

\* the line reading of the engines
VARIABLES
    rchunk,            \* the characters the last read_line call put into line
    rraw               \* line after the trailing newline was removed, as handed to the parser

rvars == <<rchunk, rraw>>

\* one TangoParser under construction, reconfiguration and validation
VARIABLES
    tango,             \* the TangoParser: its config and the components built from it
    tres               \* the last configuration call, its argument and what it returned

gvars == <<tango, tres>>

\* one ResilientParser
VARIABLES
    xlines,            \* the vector handed to the last parse_lines call
    xresults,          \* the vector it returned
    xcalls             \* parse_lines calls so far

xvars == <<xlines, xresults, xcalls>>

fvars == <<mvars, rvars, gvars, xvars>>

evars == <<qvars, tvars, kvars, lvars, fvars>>

vars == <<dvars, cvars, svars, pvars, evars>>

NoCall == [source |-> << >>, profile |-> NoProfile,
           classified |-> FALSE, hit |-> FALSE, format |-> "PlainText"]

NoResult == [success |-> FALSE, format_type |-> "PlainText", parse_error |-> "unset",
             error |-> NoError, confidence |-> 0, line_number |-> NoLineNumber,
             raw |-> PlainLine]

NoRun == [source |-> << >>, format_type |-> "PlainText", n |-> 0]

\* TangoParser::with_config
with_config(cfg, pp) ==
    /\ config = cfg
    /\ profile_parsers = pp
    /\ format_cache = IF cfg.enable_format_caching
                      THEN with_settings(cfg.cache_max_entries, cfg.cache_max_age_seconds,
                                         cfg.cache_min_samples_for_stability)
                      ELSE with_settings(1000, 3600, 5)
    /\ stats = ParsingStatistics_new

Configs ==
    [enable_format_caching : BOOLEAN, enable_statistics : {TRUE},
     enable_streaming : {TRUE},
     cache_max_entries : {CacheMaxEntries}, cache_max_age_seconds : {CacheMaxAge},
     cache_min_samples_for_stability : {CacheMinSamples}]

DInit ==
    /\ \E cfg \in Configs, pp \in ProfileConfigs : with_config(cfg, pp)
    /\ now = 0
    /\ result = NoResult
    /\ call = NoCall
    /\ run = NoRun
    /\ ops = 0

\* the run of successive cache-path dispatches that the call extends or restarts
NextRun(r, l, source, profile) ==
    IF profile # NoProfile THEN NoRun
    ELSE IF r.n > 0 /\ r.source = source /\ r.format_type = detect_format(l)
    THEN [r EXCEPT !.n = r.n + 1]
    ELSE [source |-> source, format_type |-> detect_format(l), n |-> 1]

\* parse_line_with_source(line, source)
ParseLineWithSource(l, source) ==
    /\ ops < MaxOps
    /\ \E o \in parse_line_with_source(config, profile_parsers, format_cache, stats,
                                       l, source, now) :
          /\ format_cache' = o.format_cache
          /\ stats' = o.stats
          /\ result' = o.result
          /\ call' = [source |-> source, profile |-> o.profile,
                      classified |-> o.classified, hit |-> o.hit, format |-> o.format]
          /\ run' = NextRun(run, l, source, o.profile)
    /\ ops' = ops + 1
    /\ UNCHANGED <<config, profile_parsers, now, cvars, svars, pvars>>
    /\ UNCHANGED evars

\* clear_format_cache()
ClearFormatCache ==
    /\ format_cache.cache # {}
    /\ format_cache' = FormatCache_clear(format_cache)
    /\ run' = NoRun
    /\ UNCHANGED <<config, profile_parsers, stats, now, result, call, ops>>
    /\ UNCHANGED <<cvars, svars, pvars>>
    /\ UNCHANGED evars

\* one second passes
Tick ==
    /\ now < MaxClock
    /\ now' = now + 1
    /\ UNCHANGED <<config, profile_parsers, format_cache, stats, result, call, run, ops>>
    /\ UNCHANGED <<cvars, svars, pvars>>
    /\ UNCHANGED evars


(***************************************************************************)
(* Streaming engine (streaming_parser.rs) and TangoParser::parse_reader.   *)
(* A reader delivers items: a line and its byte length after the newline   *)
(* has been stripped.                                                      *)
(***************************************************************************)
StreamItems ==
    { [line |-> JsonLine, len |-> n] : n \in 1..MaxLineLen }
    \cup { [line |-> ApacheLine, len |-> 1], [line |-> PlainLine, len |-> 0] }

\* StreamingParser::parse_line_optimized
parse_line_optimized(l, n) == with_line_number(ParseWith(detect_format(l), l), n)

\* the statistics update at the end of parse_line_optimized
stream_record(st, r) ==
    IF r.success THEN record_success(st, r.format_type)
    ELSE IF r.error # NoError THEN record_failure(st, r.error)
    ELSE st

\* a start line that restarts the numbering with every batch
BatchStartLine_restart(ln, b) == 1

\* first line number of the batch being flushed
BatchStartLine(ln, b) == ln - Len(b)

\* StreamingParser::process_batch: the results of the batch
process_batch(lines, start_line_number) ==
    [i \in 1..Len(lines) |-> parse_line_optimized(lines[i], start_line_number + i - 1)]

RECURSIVE RecordAll(_, _)
RecordAll(st, rs) ==
    IF rs = << >> THEN st ELSE RecordAll(stream_record(st, Head(rs)), Tail(rs))

StreamConfigs ==
    [batch_size : 1..MaxBatchSize, memory_limit_bytes : 1..MaxMemoryLimit]

SIdle ==
    /\ sconfig = [batch_size |-> 1, memory_limit_bytes |-> 1]
    /\ current_memory_usage = 0
    /\ sstats = ParsingStatistics_new
    /\ spc = "idle"
    /\ ssource = << >>
    /\ input = << >>
    /\ batch = << >>
    /\ line_number = 1
    /\ results = << >>
    /\ flushed = {}

\* TangoParser::parse_reader(reader, source) is entered
ParseReader(source) ==
    /\ spc = "idle"
    /\ spc' = "reading"
    /\ ssource' = source
    /\ input' = << >>
    /\ batch' = << >>
    /\ line_number' = 1
    /\ results' = << >>
    /\ UNCHANGED <<sconfig, current_memory_usage, sstats, flushed, dvars, cvars, pvars>>
    /\ UNCHANGED evars

\* a flush test that lets the tally reach the budget
batch_is_due_over_budget(b, usage, cfg) ==
    Len(b) >= cfg.batch_size \/ usage > cfg.memory_limit_bytes

\* parse_stream: the test that flushes the batch
batch_is_due(b, usage, cfg) ==
    Len(b) >= cfg.batch_size \/ usage >= cfg.memory_limit_bytes

\* parse_stream: one loop iteration that reads a line
StreamReadLine(item) ==
    /\ spc = "reading"
    /\ config.enable_streaming
    /\ Len(input) < MaxStreamLines
    /\ input' = Append(input, item)
    /\ line_number' = line_number + 1
    /\ LET usage == current_memory_usage + item.len
           b == Append(batch, item.line)
           rs == process_batch(b, BatchStartLine(line_number + 1, b))
       IN IF batch_is_due(b, usage, sconfig)
          THEN /\ results' = results \o rs
               /\ sstats' = RecordAll(sstats, rs)
               /\ batch' = << >>
               /\ current_memory_usage' = 0
               /\ flushed' = flushed \cup
                     {IF Len(b) >= sconfig.batch_size THEN "size" ELSE "memory"}
          ELSE /\ batch' = b
               /\ current_memory_usage' = usage
               /\ UNCHANGED <<results, sstats, flushed>>
    /\ UNCHANGED <<sconfig, spc, ssource, dvars, cvars, pvars>>
    /\ UNCHANGED evars

\* parse_stream: read_line returns 0 bytes
StreamEndOfStream ==
    /\ spc = "reading"
    /\ config.enable_streaming
    /\ LET rs == process_batch(batch, BatchStartLine(line_number, batch))
       IN /\ results' = results \o rs
          /\ sstats' = RecordAll(sstats, rs)
          /\ flushed' = IF batch # << >> THEN flushed \cup {"final"} ELSE flushed
    /\ batch' = << >>
    /\ current_memory_usage' = 0
    /\ spc' = "ok"
    /\ UNCHANGED <<sconfig, ssource, input, line_number, dvars, cvars, pvars>>
    /\ UNCHANGED evars

\* parse_stream: read_line fails and the error is returned with `?`
StreamIoError ==
    /\ spc = "reading"
    /\ config.enable_streaming
    /\ spc' = "err"
    /\ results' = << >>
    /\ batch' = << >>
    /\ UNCHANGED <<sconfig, current_memory_usage, sstats, ssource, input, line_number,
                   flushed, dvars, cvars, pvars>>
    /\ UNCHANGED evars

\* parse_reader without a streaming parser: one line of the fallback loop
FallbackReadLine(item) ==
    /\ spc = "reading"
    /\ ~config.enable_streaming
    /\ Len(input) < MaxStreamLines
    /\ input' = Append(input, item)
    /\ \E o \in parse_line_with_source(config, profile_parsers, format_cache, stats,
                                       item.line, ssource, now) :
          /\ format_cache' = o.format_cache
          /\ stats' = o.stats
          /\ result' = o.result
          /\ call' = [source |-> ssource, profile |-> o.profile,
                      classified |-> o.classified, hit |-> o.hit, format |-> o.format]
          /\ results' = Append(results, o.result)
    /\ UNCHANGED <<config, profile_parsers, now, run, ops, cvars, pvars>>
    /\ UNCHANGED <<sconfig, current_memory_usage, sstats, spc, ssource, batch,
                   line_number, flushed>>
    /\ UNCHANGED evars

FallbackEndOfStream ==
    /\ spc = "reading"
    /\ ~config.enable_streaming
    /\ spc' = "ok"
    /\ UNCHANGED <<sconfig, current_memory_usage, sstats, ssource, input, batch,
                   line_number, results, flushed, dvars, cvars, pvars>>
    /\ UNCHANGED evars

FallbackIoError ==
    /\ spc = "reading"
    /\ ~config.enable_streaming
    /\ spc' = "err"
    /\ results' = << >>
    /\ UNCHANGED <<sconfig, current_memory_usage, sstats, ssource, input, batch,
                   line_number, flushed, dvars, cvars, pvars>>
    /\ UNCHANGED evars


(***************************************************************************)
(* Parallel engine (parallel_parser.rs): worker threads that share one     *)
(* FormatCache behind a lock.  A critical section is one step.             *)
(***************************************************************************)
Workers == 1..NumWorkers
ParallelCorpus == {JsonLine, LogfmtLine, PlainLine}
ParallelSources == {SrcA, SrcC}

NoPending == [format_type |-> "PlainText", confidence |-> 0, result |-> NoResult]

IdleWorker == [pc |-> "start", line |-> PlainLine, source |-> << >>, line_number |-> 0,
               pending |-> NoPending, hits |-> 0, misses |-> 0, result |-> NoResult]

\* the fallback chain of parse_line_with_structures_static: the result and
\* the format and confidence it puts into the shared cache
FallbackChain(l) ==
    IF l.brace /\ JsonParse(l).success
    THEN [format_type |-> "Json", confidence |-> JsonParse(l).confidence,
          result |-> JsonParse(l)]
    ELSE IF LogfmtCanParse(l) /\ LogfmtParse(l).success
    THEN [format_type |-> "Logfmt", confidence |-> LogfmtParse(l).confidence,
          result |-> LogfmtParse(l)]
    ELSE IF PatternCanParse(l) /\ PatternParse(l).success
    THEN [format_type |-> "TimestampLevel", confidence |-> PatternParse(l).confidence,
          result |-> PatternParse(l)]
    ELSE [format_type |-> "PlainText", confidence |-> PlainTextParse(l).confidence,
          result |-> PlainTextParse(l)]

PIdle ==
    /\ shared_cache = with_settings(1000, 3600, 5)
    /\ workers = [w \in Workers |-> IdleWorker]
    /\ taken = 0
    /\ identical = TRUE

\* first critical section: cache.get(source) and, on a hit, the cached parser
WorkerLookup(w, l, source) ==
    /\ workers[w].pc = "start"
    /\ taken < MaxWorkItems
    /\ taken' = taken + 1
    /\ identical' = (identical /\ l = JsonLine /\ source = SrcA)
    /\ LET g == FormatCache_get(shared_cache, source, now)
           r == ParseWith(g.entry.format_type, l)
           me == [workers[w] EXCEPT !.line = l, !.source = source,
                                    !.line_number = taken + 1,
                                    !.hits = @ + (IF g.hit THEN 1 ELSE 0),
                                    !.misses = @ + (IF g.hit THEN 0 ELSE 1)]
       IN /\ shared_cache' = g.cache
          /\ workers' = [workers EXCEPT ![w] =
                IF g.hit /\ r.success
                THEN [me EXCEPT !.result = with_line_number(r, taken + 1)]
                ELSE [me EXCEPT !.pc = "chain"]]
    /\ UNCHANGED <<dvars, cvars, svars>>
    /\ UNCHANGED evars

\* the fallback chain, outside any critical section
WorkerChain(w) ==
    /\ workers[w].pc = "chain"
    /\ workers' = [workers EXCEPT ![w].pc = "put",
                                  ![w].pending = FallbackChain(workers[w].line)]
    /\ UNCHANGED <<shared_cache, taken, identical, dvars, cvars, svars>>
    /\ UNCHANGED evars

\* second critical section: cache.put of the detected format
WorkerPut(w) ==
    /\ workers[w].pc = "put"
    /\ shared_cache' \in FormatCache_put(shared_cache, workers[w].source,
                                         workers[w].pending.format_type,
                                         workers[w].pending.confidence,
                                         NoTimestampFormat, {}, now)
    /\ workers' = [workers EXCEPT
                     ![w].pc = "start",
                     ![w].pending = NoPending,
                     ![w].result = with_line_number(workers[w].pending.result,
                                                    workers[w].line_number)]
    /\ UNCHANGED <<taken, identical, dvars, cvars, svars>>
    /\ UNCHANGED evars

(***************************************************************************)
(* The classifier on one line.                                             *)
(***************************************************************************)
CIdle ==
    /\ cline = PlainLine
    /\ cformat = "pending"

DetectFormat ==
    /\ cformat = "pending"
    /\ cformat' = detect_format(cline)
    /\ UNCHANGED <<cline, dvars, svars, pvars>>
    /\ UNCHANGED evars

\* a detect_format that answers from the format cache and fills it
detect_format_through_cache(c, l, source, clock) ==
    LET d == CHOOSE x \in detect_format_with_caching(c, l, source, clock) : TRUE
    IN [cache |-> d.cache, format_type |-> d.format_type]

\* FormatClassifier::detect_format of TangoFormatClassifier: the classifier's
\* cache after the call and the format returned
TangoFormatClassifier_detect_format(c, l, source, clock) ==
    [cache |-> c, format_type |-> detect_format_internal(l).format_type]

\* detect_format(line, source) on the classifier of the dispatcher
ClassifierDetectFormat(l, source) ==
    /\ cline' = l
    /\ cformat' = TangoFormatClassifier_detect_format(format_cache, l, source, now).format_type
    /\ format_cache' = TangoFormatClassifier_detect_format(format_cache, l, source, now).cache
    /\ UNCHANGED <<config, profile_parsers, stats, now, result, call, run, ops>>
    /\ UNCHANGED <<svars, pvars>>
    /\ UNCHANGED evars

(***************************************************************************)
(* Work-queue engine (parallel_parser.rs parse_lines_producer_consumer):   *)
(* a producer thread, num_threads workers and the collecting caller,       *)
(* joined by two bounded channels.  The state starts after the threads     *)
(* are spawned and the caller has dropped its own senders.  A channel of   *)
(* capacity 0 hands an item over only to a receiver that is waiting.       *)
(***************************************************************************)
QueueCorpus == {JsonLine, PlainLine}

QueueConfigs == [queue_capacity : 0..MaxQueueCapacity, num_threads : 1..NumWorkers]

QueueWorkers == 1..qconfig.num_threads

\* the work item the producer builds for the i-th line (i from 1)
WorkItem_unnumbered(lines, source, i) ==
    [line |-> lines[i], source |-> source, line_number |-> 1]

WorkItem(lines, source, i) ==
    [line |-> lines[i], source |-> source, line_number |-> i]

QIdle ==
    /\ qconfig = [queue_capacity |-> 0, num_threads |-> 1]
    /\ qlines = << >>
    /\ producer = [next |-> 1, pc |-> "done"]
    /\ work_queue = << >>
    /\ result_queue = << >>
    /\ collected = << >>
    /\ collector = "idle"

\* the worker takes the work item it received
TakeItem(wk, item) ==
    [wk EXCEPT !.pc = "lookup", !.line = item.line, !.source = item.source,
               !.line_number = item.line_number]

\* producer: send(work_item) into a channel with room
Produce ==
    /\ producer.pc = "send"
    /\ producer.next <= Len(qlines)
    /\ Len(work_queue) < qconfig.queue_capacity
    /\ work_queue' = Append(work_queue, WorkItem(qlines, SrcA, producer.next))
    /\ producer' = [producer EXCEPT !.next = @ + 1]
    /\ UNCHANGED <<qconfig, qlines, result_queue, collected, collector>>
    /\ UNCHANGED <<dvars, cvars, svars, pvars, tvars, kvars, lvars, fvars>>

\* producer: send(work_item) on a zero-capacity channel to a waiting worker
ProduceDirect(w) ==
    /\ producer.pc = "send"
    /\ producer.next <= Len(qlines)
    /\ qconfig.queue_capacity = 0
    /\ w \in QueueWorkers
    /\ workers[w].pc = "start"
    /\ workers' = [workers EXCEPT
                     ![w] = TakeItem(@, WorkItem(qlines, SrcA, producer.next))]
    /\ producer' = [producer EXCEPT !.next = @ + 1]
    /\ UNCHANGED <<qconfig, qlines, work_queue, result_queue, collected, collector>>
    /\ UNCHANGED <<shared_cache, taken, identical>>
    /\ UNCHANGED <<dvars, cvars, svars, tvars, kvars, lvars, fvars>>

\* producer: the loop ends and the thread drops its sender
ProducerDone ==
    /\ producer.pc = "send"
    /\ producer.next > Len(qlines)
    /\ producer' = [producer EXCEPT !.pc = "done"]
    /\ UNCHANGED <<qconfig, qlines, work_queue, result_queue, collected, collector>>
    /\ UNCHANGED <<dvars, cvars, svars, pvars, tvars, kvars, lvars, fvars>>

\* worker: work_recv.recv() returns an item
QueueRecv(w) ==
    /\ w \in QueueWorkers
    /\ workers[w].pc = "start"
    /\ work_queue # << >>
    /\ workers' = [workers EXCEPT ![w] = TakeItem(@, Head(work_queue))]
    /\ work_queue' = Tail(work_queue)
    /\ UNCHANGED <<qconfig, qlines, producer, result_queue, collected, collector>>
    /\ UNCHANGED <<shared_cache, taken, identical>>
    /\ UNCHANGED <<dvars, cvars, svars, tvars, kvars, lvars, fvars>>

\* a caller that keeps its own work sender: recv() on the empty channel
\* never fails and the worker stays blocked in it
QueueRecvClosed_sender_kept(w) ==
    /\ w \in QueueWorkers
    /\ workers[w].pc = "start"
    /\ work_queue = << >>
    /\ producer.pc = "done"
    /\ UNCHANGED <<dvars, cvars, svars, pvars, qvars, tvars, kvars, lvars, fvars>>

\* worker: work_recv.recv() fails, the channel is empty and has no sender
QueueRecvClosed(w) ==
    /\ w \in QueueWorkers
    /\ workers[w].pc = "start"
    /\ work_queue = << >>
    /\ producer.pc = "done"
    /\ workers' = [workers EXCEPT ![w].pc = "exit"]
    /\ UNCHANGED <<shared_cache, taken, identical>>
    /\ UNCHANGED <<dvars, cvars, svars, qvars, tvars, kvars, lvars, fvars>>

\* worker: first critical section of parse_line_with_structures_static
QueueLookup(w) ==
    /\ workers[w].pc = "lookup"
    /\ LET g == FormatCache_get(shared_cache, workers[w].source, now)
           r == ParseWith(g.entry.format_type, workers[w].line)
           me == [workers[w] EXCEPT !.hits = @ + (IF g.hit THEN 1 ELSE 0),
                                    !.misses = @ + (IF g.hit THEN 0 ELSE 1)]
       IN /\ shared_cache' = g.cache
          /\ workers' = [workers EXCEPT ![w] =
                IF g.hit /\ r.success
                THEN [me EXCEPT !.pc = "send",
                                !.result = with_line_number(r, me.line_number)]
                ELSE [me EXCEPT !.pc = "chain"]]
    /\ UNCHANGED <<taken, identical>>
    /\ UNCHANGED <<dvars, cvars, svars, qvars, tvars, kvars, lvars, fvars>>

\* worker: second critical section, then on to result_send.send
QueuePut(w) ==
    /\ workers[w].pc = "put"
    /\ shared_cache' \in FormatCache_put(shared_cache, workers[w].source,
                                         workers[w].pending.format_type,
                                         workers[w].pending.confidence,
                                         NoTimestampFormat, {}, now)
    /\ workers' = [workers EXCEPT
                     ![w].pc = "send",
                     ![w].pending = NoPending,
                     ![w].result = with_line_number(workers[w].pending.result,
                                                    workers[w].line_number)]
    /\ UNCHANGED <<taken, identical>>
    /\ UNCHANGED <<dvars, cvars, svars, qvars, tvars, kvars, lvars, fvars>>

\* worker: result_send.send(result) into a channel with room
QueueSend(w) ==
    /\ workers[w].pc = "send"
    /\ Len(result_queue) < qconfig.queue_capacity
    /\ result_queue' = Append(result_queue, workers[w].result)
    /\ workers' = [workers EXCEPT ![w].pc = "start"]
    /\ UNCHANGED <<qconfig, qlines, producer, work_queue, collected, collector>>
    /\ UNCHANGED <<shared_cache, taken, identical>>
    /\ UNCHANGED <<dvars, cvars, svars, tvars, kvars, lvars, fvars>>

\* worker: result_send.send(result) on a zero-capacity channel to the caller
QueueSendDirect(w) ==
    /\ workers[w].pc = "send"
    /\ qconfig.queue_capacity = 0
    /\ collector = "recv"
    /\ collected' = Append(collected, workers[w].result)
    /\ workers' = [workers EXCEPT ![w].pc = "start"]
    /\ UNCHANGED <<qconfig, qlines, producer, work_queue, result_queue, collector>>
    /\ UNCHANGED <<shared_cache, taken, identical>>
    /\ UNCHANGED <<dvars, cvars, svars, tvars, kvars, lvars, fvars>>

\* caller: result_receiver.recv() returns a result
Collect ==
    /\ collector = "recv"
    /\ result_queue # << >>
    /\ collected' = Append(collected, Head(result_queue))
    /\ result_queue' = Tail(result_queue)
    /\ UNCHANGED <<qconfig, qlines, producer, work_queue, collector>>
    /\ UNCHANGED <<dvars, cvars, svars, pvars, tvars, kvars, lvars, fvars>>

\* caller: recv() fails once every worker has gone, the threads are joined
\* and the results returned
CollectorReturn ==
    /\ collector = "recv"
    /\ result_queue = << >>
    /\ \A w \in QueueWorkers : workers[w].pc = "exit"
    /\ producer.pc = "done"
    /\ collector' = "returned"
    /\ UNCHANGED <<qconfig, qlines, producer, work_queue, result_queue, collected>>
    /\ UNCHANGED <<dvars, cvars, svars, pvars, tvars, kvars, lvars, fvars>>

(***************************************************************************)
(* parse_streams_parallel (parallel_parser.rs): one task per stream, each  *)
(* running parse_single_stream on the shared cache.                        *)
(***************************************************************************)
StreamIds == 1..NumStreams
ParStreamCorpus == {JsonLine, PlainLine}

NewStream(source) ==
    [source |-> source, input |-> << >>, line_number |-> 1, results |-> << >>,
     pc |-> "read", line |-> PlainLine, pending |-> NoPending]

NoOutput == [status |-> "pending", sets |-> << >>]

\* the result sets in the reverse of the order the streams were given in
CollectStreams_reversed(ps) ==
    [i \in 1..Len(ps) |-> ps[Len(ps) + 1 - i].results]

\* Vec<ParallelResult> collected from the parallel iterator, in stream order
CollectStreams(ps) ==
    [i \in 1..Len(ps) |-> ps[i].results]

TIdle ==
    /\ pstreams = << >>
    /\ poutput = NoOutput

\* parse_single_stream: read_line returns a line, first critical section
ParStreamRead(i, l) ==
    /\ poutput.status = "pending"
    /\ pstreams[i].pc = "read"
    /\ Len(pstreams[i].input) < MaxParStreamLines
    /\ LET st == pstreams[i]
           g == FormatCache_get(shared_cache, st.source, now)
           r == ParseWith(g.entry.format_type, l)
           me == [st EXCEPT !.input = Append(@, l), !.line = l]
       IN /\ shared_cache' = g.cache
          /\ pstreams' = [pstreams EXCEPT ![i] =
                IF g.hit /\ r.success
                THEN [me EXCEPT
                        !.results = Append(@, with_line_number(r, st.line_number)),
                        !.line_number = @ + 1]
                ELSE [me EXCEPT !.pc = "chain"]]
    /\ UNCHANGED <<workers, taken, identical, poutput>>
    /\ UNCHANGED <<dvars, cvars, svars, qvars, kvars, lvars, fvars>>

\* the fallback chain on the line just read
ParStreamChain(i) ==
    /\ pstreams[i].pc = "chain"
    /\ pstreams' = [pstreams EXCEPT ![i].pc = "put",
                                    ![i].pending = FallbackChain(pstreams[i].line)]
    /\ UNCHANGED <<pvars, poutput>>
    /\ UNCHANGED <<dvars, cvars, svars, qvars, kvars, lvars, fvars>>

\* second critical section, results.push(result), line_number += 1
ParStreamPut(i) ==
    /\ pstreams[i].pc = "put"
    /\ shared_cache' \in FormatCache_put(shared_cache, pstreams[i].source,
                                         pstreams[i].pending.format_type,
                                         pstreams[i].pending.confidence,
                                         NoTimestampFormat, {}, now)
    /\ pstreams' = [pstreams EXCEPT
                      ![i].pc = "read",
                      ![i].pending = NoPending,
                      ![i].results = Append(@, with_line_number(
                                        pstreams[i].pending.result,
                                        pstreams[i].line_number)),
                      ![i].line_number = @ + 1]
    /\ UNCHANGED <<workers, taken, identical, poutput>>
    /\ UNCHANGED <<dvars, cvars, svars, qvars, kvars, lvars, fvars>>

\* read_line returns 0 bytes: Ok(ParallelResult)
ParStreamEnd(i) ==
    /\ poutput.status = "pending"
    /\ pstreams[i].pc = "read"
    /\ pstreams' = [pstreams EXCEPT ![i].pc = "done"]
    /\ UNCHANGED <<pvars, poutput>>
    /\ UNCHANGED <<dvars, cvars, svars, qvars, kvars, lvars, fvars>>

\* read_line fails: the task returns the error
ParStreamIoError(i) ==
    /\ poutput.status = "pending"
    /\ pstreams[i].pc = "read"
    /\ pstreams' = [pstreams EXCEPT ![i].pc = "failed"]
    /\ UNCHANGED <<pvars, poutput>>
    /\ UNCHANGED <<dvars, cvars, svars, qvars, kvars, lvars, fvars>>

\* collect(): the result sets in stream order, or the error of a failed task
ParStreamsReturn ==
    /\ poutput.status = "pending"
    /\ pstreams # << >>
    /\ \A i \in 1..Len(pstreams) : pstreams[i].pc \in {"done", "failed"}
    /\ poutput' = IF \E i \in 1..Len(pstreams) : pstreams[i].pc = "failed"
                  THEN [status |-> "err", sets |-> << >>]
                  ELSE [status |-> "ok", sets |-> CollectStreams(pstreams)]
    /\ UNCHANGED <<pvars, pstreams>>
    /\ UNCHANGED <<dvars, cvars, svars, qvars, kvars, lvars, fvars>>

(***************************************************************************)
(* Lock discipline (parallel_parser.rs): the RwLock around the shared      *)
(* cache and the Mutex around global_statistics.  Worker threads run       *)
(* parse_line_with_structures_static; one more thread calls                *)
(* get_cache_stats, clear_shared_cache and get_global_statistics.          *)
(***************************************************************************)
Monitor == NumWorkers + 1
LockThreads == 1..Monitor

\* the lock and the mode an operation acquires
LockMode(op) ==
    CASE op \in {"get", "put", "clear"} -> "write"
      [] op = "stats" -> "read"
      [] OTHER -> "mutex"

\* parsed_locked: the thread's last section ran a format parser on its line
IdleThread == [pc |-> "idle", op |-> "none", line |-> PlainLine,
               pending |-> NoPending, begun |-> 0, parsed_locked |-> FALSE]

\* a thread enters parse_line_with_structures_static or one of the accessors
LockBegin(t, op, l) ==
    /\ lthreads[t].pc = "idle"
    /\ lthreads[t].begun < MaxLockOps
    /\ IF t = Monitor THEN op \in {"stats", "clear", "global_statistics"} /\ l = PlainLine
                      ELSE op = "get"
    /\ lthreads' = [lthreads EXCEPT ![t].pc = "acquire", ![t].op = op, ![t].line = l,
                                    ![t].begun = @ + 1, ![t].parsed_locked = FALSE]
    /\ UNCHANGED <<cache_lock, stats_mutex>>
    /\ UNCHANGED <<dvars, cvars, svars, pvars, qvars, tvars, kvars, fvars>>

\* shared_cache.write(), shared_cache.read() or global_statistics.lock() returns
LockAcquire(t) ==
    /\ lthreads[t].pc = "acquire"
    /\ CASE LockMode(lthreads[t].op) = "write" ->
              /\ cache_lock.writer = 0 /\ cache_lock.readers = {}
              /\ cache_lock' = [cache_lock EXCEPT !.writer = t]
              /\ UNCHANGED stats_mutex
         [] LockMode(lthreads[t].op) = "read" ->
              /\ cache_lock.writer = 0
              /\ cache_lock' = [cache_lock EXCEPT !.readers = @ \cup {t}]
              /\ UNCHANGED stats_mutex
         [] OTHER ->
              /\ stats_mutex = 0
              /\ stats_mutex' = t
              /\ UNCHANGED cache_lock
    /\ lthreads' = [lthreads EXCEPT ![t].pc = "holding"]
    /\ UNCHANGED <<dvars, cvars, svars, pvars, qvars, tvars, kvars, fvars>>

\* the access inside the section, and the guard dropped at the end of its scope
LockAccessRelease(t) ==
    /\ lthreads[t].pc = "holding"
    /\ LET op == lthreads[t].op
           g == FormatCache_get(shared_cache, SrcA, now)
           r == ParseWith(g.entry.format_type, lthreads[t].line)
       IN CASE op = "get" ->
                 /\ shared_cache' = g.cache
                 /\ lthreads' = [lthreads EXCEPT
                       ![t].pc = IF g.hit /\ r.success THEN "idle" ELSE "chain",
                       ![t].parsed_locked = g.hit]
            [] op = "put" ->
                 /\ shared_cache' \in FormatCache_put(shared_cache, SrcA,
                                        lthreads[t].pending.format_type,
                                        lthreads[t].pending.confidence,
                                        NoTimestampFormat, {}, now)
                 /\ lthreads' = [lthreads EXCEPT ![t].pc = "idle",
                                                 ![t].pending = NoPending]
            [] op = "clear" ->
                 /\ shared_cache' = FormatCache_clear(shared_cache)
                 /\ lthreads' = [lthreads EXCEPT ![t].pc = "idle"]
            [] OTHER ->
                 /\ UNCHANGED shared_cache
                 /\ lthreads' = [lthreads EXCEPT ![t].pc = "idle"]
    /\ cache_lock' = [writer |-> IF cache_lock.writer = t THEN 0 ELSE cache_lock.writer,
                      readers |-> cache_lock.readers \ {t}]
    /\ stats_mutex' = IF stats_mutex = t THEN 0 ELSE stats_mutex
    /\ UNCHANGED <<workers, taken, identical>>
    /\ UNCHANGED <<dvars, cvars, svars, qvars, tvars, kvars, fvars>>

\* the fallback chain between the two sections of a worker
LockChain(t) ==
    /\ lthreads[t].pc = "chain"
    /\ lthreads' = [lthreads EXCEPT ![t].pc = "acquire", ![t].op = "put",
                                    ![t].pending = FallbackChain(lthreads[t].line)]
    /\ UNCHANGED <<cache_lock, stats_mutex>>
    /\ UNCHANGED <<dvars, cvars, svars, pvars, qvars, tvars, kvars, fvars>>

(***************************************************************************)
(* One FormatCache (classifier.rs) under direct get, put, clear and        *)
(* adapt_parameters calls.  kop is the last call: its name, its source,    *)
(* the cache it was applied to and, for get, whether it returned an entry. *)
(***************************************************************************)
KeyDigits == <<"0", "1", "2", "3", "4">>

\* distinct source names of the entries a cache starts with
CacheKey(n) ==
    <<"k", KeyDigits[((n \div 25) % 5) + 1], KeyDigits[((n \div 5) % 5) + 1],
      KeyDigits[(n % 5) + 1]>>

\* a cache after put of fill distinct sources (fill <= max_entries, so no
\* put evicts), one second apart, the last one a second before time 0
Prefilled(c, fill) ==
    [c EXCEPT !.cache =
        { [FormatCacheEntry_new(CacheKey(n), "Logfmt", Conf(70), n - fill - 1)
              EXCEPT !.field_mappings = LogfmtFieldMappings] : n \in 1..fill }]

CacheScenarios ==
    { [settings |-> with_settings(CacheMaxEntries + 1, CacheMaxAge, CacheMinSamples),
       fill |-> 0],
      [settings |-> with_settings(124, 3600, 5), fill |-> 124],
      [settings |-> with_settings(4999, 7199, 5), fill |-> 0] }

CacheSources == {SrcA, SrcAB, CacheKey(1)}

CachePayloads ==
    { [format_type |-> "Json", confidence |-> Conf(95), timestamp_format |-> "ISO8601",
       field_mappings |-> JsonFieldMappings] }

CacheGet(source) ==
    /\ kops < MaxCacheOps
    /\ LET g == FormatCache_get(format_cache, source, now)
       IN /\ format_cache' = g.cache
          /\ kop' = [op |-> "get", source |-> source, before |-> format_cache,
                     hit |-> g.hit]
    /\ kops' = kops + 1
    /\ UNCHANGED <<config, profile_parsers, stats, now, result, call, run, ops>>
    /\ UNCHANGED <<cvars, svars, pvars, qvars, tvars, lvars, fvars>>

CachePut(source, p) ==
    /\ kops < MaxCacheOps
    /\ format_cache' \in FormatCache_put(format_cache, source, p.format_type, p.confidence,
                                         p.timestamp_format, p.field_mappings, now)
    /\ kop' = [op |-> "put", source |-> source, before |-> format_cache, payload |-> p]
    /\ kops' = kops + 1
    /\ UNCHANGED <<config, profile_parsers, stats, now, result, call, run, ops>>
    /\ UNCHANGED <<cvars, svars, pvars, qvars, tvars, lvars, fvars>>

CacheClear ==
    /\ kops < MaxCacheOps
    /\ format_cache' = FormatCache_clear(format_cache)
    /\ kop' = [op |-> "clear", before |-> format_cache]
    /\ kops' = kops + 1
    /\ UNCHANGED <<config, profile_parsers, stats, now, result, call, run, ops>>
    /\ UNCHANGED <<cvars, svars, pvars, qvars, tvars, lvars, fvars>>

CacheAdapt ==
    /\ kops < MaxCacheOps
    /\ format_cache' = adapt_parameters(format_cache)
    /\ kop' = [op |-> "adapt_parameters", before |-> format_cache]
    /\ kops' = kops + 1
    /\ UNCHANGED <<config, profile_parsers, stats, now, result, call, run, ops>>
    /\ UNCHANGED <<cvars, svars, pvars, qvars, tvars, lvars, fvars>>

\* one second passes between two calls
CacheTick ==
    /\ now < MaxClock
    /\ now' = now + 1
    /\ kop' = [op |-> "none"]
    /\ UNCHANGED <<config, profile_parsers, format_cache, stats, result, call, run, ops, kops>>
    /\ UNCHANGED <<cvars, svars, pvars, qvars, tvars, lvars, fvars>>

(***************************************************************************)
(* Configuration of a TangoParser (tango_parser.rs): construction with a   *)
(* TangoConfig, update_config and validate_config.  A profile definition   *)
(* carries whether its parser can be created (a regex that compiles, a csv *)
(* definition with column mappings).                                       *)
(***************************************************************************)
TangoConfig(profiles, entries, age, sbatch, pbatch, statistics) ==
    [enable_format_caching |-> TRUE,
     cache_max_entries |-> entries,
     cache_max_age_seconds |-> age,
     cache_min_samples_for_stability |-> 5,
     enable_streaming |-> TRUE,
     streaming_config |-> [batch_size |-> sbatch, buffer_size |-> 65536],
     enable_parallel_processing |-> TRUE,
     parallel_config |-> [batch_size |-> pbatch],
     enable_statistics |-> statistics,
     profiles |-> profiles]

TangoConfig_default == TangoConfig({}, 1000, 3600, 1000, 1000, TRUE)

\* profile definitions: an Apache profile, and a regex profile whose pattern
\* does not compile
GoodProfile == [name |-> <<"a">>, ptype |-> "Apache", valid |-> TRUE]
BadProfile == [name |-> <<"b">>, ptype |-> "Regex", valid |-> FALSE]

TangoConfigs ==
    { TangoConfig(profiles, entries, age, sbatch, pbatch, statistics) :
        profiles \in SUBSET {GoodProfile, BadProfile},
        entries \in {0, CacheMaxEntries}, age \in {3600},
        sbatch \in {0, 1}, pbatch \in {0, 1}, statistics \in BOOLEAN }

\* create_profile_parser
create_profile_parser(profile_config) ==
    IF profile_config.valid THEN "Ok" ELSE "ConfigurationError"

CreatedParsers(cfg) ==
    { pc.name : pc \in { q \in cfg.profiles : create_profile_parser(q) = "Ok" } }

Components(cfg) ==
    [classifier |-> IF cfg.enable_format_caching
                    THEN with_settings(cfg.cache_max_entries, cfg.cache_max_age_seconds,
                                       cfg.cache_min_samples_for_stability)
                    ELSE with_settings(1000, 3600, 5),
     streaming_parser |-> IF cfg.enable_streaming
                          THEN cfg.streaming_config ELSE "None",
     parallel_parser |-> IF cfg.enable_parallel_processing
                         THEN cfg.parallel_config ELSE "None"]

\* TangoParser::with_config: a parser for every config; a profile whose
\* parser cannot be created is left out with a warning
TangoParser_with_config(cfg) ==
    [config |-> cfg,
     components |-> Components(cfg),
     profile_parsers |-> CreatedParsers(cfg),
     statistics_monitor |-> IF cfg.enable_statistics THEN "new" ELSE "None"]

Ok == [result |-> "Ok"]
ConfigurationError(parameter) == [result |-> "ConfigurationError", parameter |-> parameter]

\* update_config: the (parser, return value) pairs the call can leave; the
\* profile reported is the first failing one in the HashMap's iteration order
update_config(t, new_config) ==
    LET bad == { pc \in new_config.profiles : create_profile_parser(pc) # "Ok" }
    IN IF bad # {}
       THEN { [tango |-> t, ret |-> ConfigurationError(<<"profiles", pc.name>>)] :
                pc \in bad }
       ELSE { [tango |->
                 [config |-> new_config,
                  components |-> Components(new_config),
                  profile_parsers |-> CreatedParsers(new_config),
                  statistics_monitor |->
                     IF new_config.enable_statistics /\ t.statistics_monitor = "None"
                     THEN "new"
                     ELSE IF ~new_config.enable_statistics THEN "None"
                     ELSE "kept"],
               ret |-> Ok] }

\* validate_config: the return values of the call
validate_config(t) ==
    LET cfg == t.config
        bad == { pc \in cfg.profiles : create_profile_parser(pc) # "Ok" }
    IN IF bad # {}
       THEN { ConfigurationError(<<"profiles", pc.name>>) : pc \in bad }
       ELSE IF cfg.cache_max_entries = 0
       THEN { ConfigurationError("cache_max_entries") }
       ELSE IF cfg.cache_max_age_seconds <= 0
       THEN { ConfigurationError("cache_max_age_seconds") }
       ELSE IF cfg.streaming_config.batch_size = 0
       THEN { ConfigurationError("streaming_config.batch_size") }
       ELSE IF cfg.streaming_config.buffer_size = 0
       THEN { ConfigurationError("streaming_config.buffer_size") }
       ELSE IF cfg.parallel_config.batch_size = 0
       THEN { ConfigurationError("parallel_config.batch_size") }
       ELSE { Ok }

\* update_config(new_config)
UpdateConfig(new_config) ==
    /\ \E o \in update_config(tango, new_config) :
          /\ tango' = o.tango
          /\ tres' = [op |-> "update_config", config |-> new_config, ret |-> o.ret]
    /\ UNCHANGED <<dvars, cvars, svars, pvars, qvars, tvars, kvars, lvars, mvars, rvars, xvars>>

\* validate_config()
ValidateConfig ==
    /\ \E ret \in validate_config(tango) :
          tres' = [op |-> "validate_config", config |-> tango.config, ret |-> ret]
    /\ UNCHANGED tango
    /\ UNCHANGED <<dvars, cvars, svars, pvars, qvars, tvars, kvars, lvars, mvars, rvars, xvars>>

(***************************************************************************)
(* Line reading of the streaming and parallel engines: read_line delivers  *)
(* the characters up to and including the next "\n", or up to the end of   *)
(* the stream; the engine removes the newline and parses what is left.     *)
(***************************************************************************)
Pop(text) == SubSeq(text, 1, Len(text) - 1)

\* removal of one trailing "\r" whether or not a "\n" followed it
strip_newline_unnested(line) ==
    LET a == IF Len(line) > 0 /\ line[Len(line)] = "\n" THEN Pop(line) ELSE line
    IN IF Len(a) > 0 /\ a[Len(a)] = "\r" THEN Pop(a) ELSE a

strip_newline(line) ==
    IF Len(line) > 0 /\ line[Len(line)] = "\n"
    THEN IF Len(line) > 1 /\ line[Len(line) - 1] = "\r" THEN Pop(Pop(line)) ELSE Pop(line)
    ELSE line

\* what read_line can deliver: at most MaxChunkLen characters and a "\n",
\* or at least one character and the end of the stream
ReadChunks ==
    LET bodies == UNION { [1..n -> {"x", "\r"}] : n \in 0..MaxChunkLen }
    IN { Append(b, "\n") : b \in bodies } \cup (bodies \ {<< >>})

ReadLine(chunk) ==
    /\ rchunk' = chunk
    /\ rraw' = strip_newline(chunk)
    /\ UNCHANGED <<dvars, cvars, svars, pvars, qvars, tvars, kvars, lvars, mvars, gvars, xvars>>

(***************************************************************************)
(* One StatisticsMonitor (statistics.rs) under direct calls.  The monitor  *)
(* record holds the counters and distributions in stats and the two nested *)
(* structs processing_time_micros and memory_stats beside it; avg_time is  *)
(* the pair <<total_time, total_lines>> whose quotient the f64 holds.      *)
(* debug_output_enabled only prints and is left out.                       *)
(***************************************************************************)
StatisticsMonitor_with_settings(monitoring_enabled, report_interval) ==
    [stats |-> ParsingStatistics_new,
     processing_time_micros |-> [total_time |-> 0, min_time |-> 0, max_time |-> 0,
                                 avg_time |-> <<0, 1>>],
     memory_stats |-> [peak_memory_bytes |-> 0, current_memory_bytes |-> 0,
                       total_allocations |-> 0],
     monitoring_enabled |-> monitoring_enabled,
     report_interval |-> report_interval,
     last_report_line |-> 0,
     status_lines |-> 0]       \* "MONITOR: ..." lines printed so far

update_processing_time(pt, time_micros, total_lines) ==
    [total_time |-> pt.total_time + time_micros,
     min_time |-> IF pt.min_time = 0 \/ time_micros < pt.min_time
                  THEN time_micros ELSE pt.min_time,
     max_time |-> IF time_micros > pt.max_time THEN time_micros ELSE pt.max_time,
     avg_time |-> <<pt.total_time + time_micros, total_lines>>]

\* a report that waits for one line more than the interval
check_and_report_late(m) ==
    IF m.monitoring_enabled
       /\ m.stats.total_lines - m.last_report_line > m.report_interval
    THEN [m EXCEPT !.last_report_line = m.stats.total_lines,
                   !.status_lines = @ + 1]
    ELSE m

check_and_report(m) ==
    IF m.monitoring_enabled
       /\ m.stats.total_lines - m.last_report_line >= m.report_interval
    THEN [m EXCEPT !.last_report_line = m.stats.total_lines,
                   !.status_lines = @ + 1]
    ELSE m

\* the part the three record calls share: st is the statistics after the count
StatisticsMonitor_record(m, st, time_micros) ==
    check_and_report([m EXCEPT
        !.stats = st,
        !.processing_time_micros = update_processing_time(@, time_micros, st.total_lines)])

\* a reset that leaves the report cursor where it was
StatisticsMonitor_reset_stats_only(m) ==
    [StatisticsMonitor_with_settings(m.monitoring_enabled, m.report_interval)
        EXCEPT !.last_report_line = m.last_report_line,
               !.status_lines = m.status_lines]

\* reset: new statistics and the report cursor at 0; what was printed stays
StatisticsMonitor_reset(m) ==
    [StatisticsMonitor_with_settings(m.monitoring_enabled, m.report_interval)
        EXCEPT !.status_lines = m.status_lines]

update_memory_stats(m, current_bytes, peak_bytes, allocations) ==
    [m EXCEPT !.memory_stats =
        [current_memory_bytes |-> current_bytes,
         peak_memory_bytes |-> Max2(peak_bytes, m.memory_stats.peak_memory_bytes),
         total_allocations |-> allocations]]

\* times: the processing times recorded since creation or the last reset
NoCalls == [S |-> 0, F |-> 0, P |-> 0, calls |-> 0, last |-> "none", times |-> {}]

MonitorRecordSuccess(f, t) ==
    /\ mlog.calls < MaxMonitorCalls
    /\ monitor' = StatisticsMonitor_record(monitor, record_success(monitor.stats, f), t)
    /\ mlog' = [mlog EXCEPT !.S = @ + 1, !.calls = @ + 1, !.last = "record_success",
                            !.times = @ \cup {t}]
    /\ UNCHANGED <<dvars, cvars, svars, pvars, qvars, tvars, kvars, lvars, rvars, gvars, xvars>>

MonitorRecordFailure(e, t) ==
    /\ mlog.calls < MaxMonitorCalls
    /\ monitor' = StatisticsMonitor_record(monitor, record_failure(monitor.stats, e), t)
    /\ mlog' = [mlog EXCEPT !.F = @ + 1, !.calls = @ + 1, !.last = "record_failure",
                            !.times = @ \cup {t}]
    /\ UNCHANGED <<dvars, cvars, svars, pvars, qvars, tvars, kvars, lvars, rvars, gvars, xvars>>

MonitorRecordPlainTextFallback(t) ==
    /\ mlog.calls < MaxMonitorCalls
    /\ monitor' = StatisticsMonitor_record(monitor,
                                           record_plain_text_fallback(monitor.stats), t)
    /\ mlog' = [mlog EXCEPT !.P = @ + 1, !.calls = @ + 1,
                            !.last = "record_plain_text_fallback",
                            !.times = @ \cup {t}]
    /\ UNCHANGED <<dvars, cvars, svars, pvars, qvars, tvars, kvars, lvars, rvars, gvars, xvars>>

MonitorUpdateMemoryStats ==
    /\ mlog.calls < MaxMonitorCalls
    /\ monitor' = update_memory_stats(monitor, 1, 1, 1)
    /\ mlog' = [mlog EXCEPT !.calls = @ + 1, !.last = "update_memory_stats"]
    /\ UNCHANGED <<dvars, cvars, svars, pvars, qvars, tvars, kvars, lvars, rvars, gvars, xvars>>

\* reset; the log restarts and keeps the monitor the reset was applied to
MonitorReset ==
    /\ mlog.calls < MaxMonitorCalls
    /\ monitor' = StatisticsMonitor_reset(monitor)
    /\ mlog' = [S |-> 0, F |-> 0, P |-> 0, calls |-> mlog.calls + 1, last |-> "reset",
                times |-> {}, before |-> monitor]
    /\ UNCHANGED <<dvars, cvars, svars, pvars, qvars, tvars, kvars, lvars, rvars, gvars, xvars>>

(***************************************************************************)
(* Idle values of the remaining variable groups.                           *)
(***************************************************************************)

KIdle ==
    /\ kop = [op |-> "none"]
    /\ kops = 0

MIdle ==
    /\ monitor = [stats |-> ParsingStatistics_new]
    /\ mlog = [last |-> "none"]

RIdle ==
    /\ rchunk = << >>
    /\ rraw = << >>

GIdle ==
    /\ tango = TangoParser_with_config(TangoConfig_default)
    /\ tres = [op |-> "none"]

XIdle ==
    /\ xlines = << >>
    /\ xresults = << >>
    /\ xcalls = 0

FIdle == MIdle /\ RIdle /\ GIdle /\ XIdle

LIdle ==
    /\ cache_lock = [writer |-> 0, readers |-> {}]
    /\ stats_mutex = 0
    /\ lthreads = << >>

(***************************************************************************)
(* Specifications.                                                         *)
(***************************************************************************)
\* the dispatcher
Init == DInit /\ CIdle /\ SIdle /\ PIdle /\ QIdle /\ TIdle /\ KIdle /\ FIdle /\ LIdle

Next ==
    \/ \E l \in Corpus, source \in Sources : ParseLineWithSource(l, source)
    \/ ClearFormatCache
    \/ Tick

Spec == Init /\ [][Next]_vars

\* the classifier over every line
InitClassify ==
    /\ with_config(CHOOSE cfg \in Configs : cfg.enable_format_caching, << >>)
    /\ now = 0 /\ result = NoResult /\ call = NoCall /\ run = NoRun /\ ops = 0
    /\ cline \in Lines
    /\ cformat = "pending"
    /\ SIdle /\ PIdle /\ QIdle /\ TIdle /\ KIdle /\ FIdle /\ LIdle

NextClassify == DetectFormat

SpecClassify == InitClassify /\ [][NextClassify]_vars

\* parse_reader over one stream
StreamTangoConfigs ==
    { cfg \in [enable_format_caching : {TRUE}, enable_statistics : {TRUE},
               enable_streaming : BOOLEAN,
               cache_max_entries : {CacheMaxEntries},
               cache_max_age_seconds : {CacheMaxAge},
               cache_min_samples_for_stability : {CacheMinSamples}] : TRUE }

InitStream ==
    /\ \E cfg \in StreamTangoConfigs :
          \E pp \in { q \in ProfileConfigs : Len(q) <= 1 } : with_config(cfg, pp)
    /\ now = 0 /\ result = NoResult /\ call = NoCall /\ run = NoRun /\ ops = 0
    /\ CIdle /\ PIdle /\ QIdle /\ TIdle /\ KIdle /\ FIdle /\ LIdle
    /\ sconfig \in IF config.enable_streaming
                   THEN StreamConfigs
                   ELSE {[batch_size |-> 1, memory_limit_bytes |-> 1]}
    /\ current_memory_usage = 0
    /\ sstats = ParsingStatistics_new
    /\ spc = "idle"
    /\ ssource = << >>
    /\ input = << >>
    /\ batch = << >>
    /\ line_number = 1
    /\ results = << >>
    /\ flushed = {}

NextStream ==
    \/ \E source \in {SrcA, SrcC} : ParseReader(source)
    \/ \E item \in StreamItems : StreamReadLine(item)
    \/ StreamEndOfStream
    \/ StreamIoError
    \/ \E item \in StreamItems : FallbackReadLine(item)
    \/ FallbackEndOfStream
    \/ FallbackIoError

SpecStream == InitStream /\ [][NextStream]_vars

\* ParallelParser.global_statistics: with_config creates it with
\* StatisticsMonitor::new() and no method of the parser records into it
global_statistics == StatisticsMonitor_with_settings(FALSE, 1000)

get_global_statistics == global_statistics.stats

\* the parallel workers on the shared cache
InitParallel ==
    /\ with_config(CHOOSE cfg \in Configs : cfg.enable_format_caching, << >>)
    /\ now = 0 /\ result = NoResult /\ call = NoCall /\ run = NoRun /\ ops = 0
    /\ CIdle /\ SIdle /\ PIdle /\ QIdle /\ TIdle /\ KIdle /\ FIdle /\ LIdle

NextParallel ==
    \/ \E w \in Workers, l \in ParallelCorpus, source \in ParallelSources :
          WorkerLookup(w, l, source)
    \/ \E w \in Workers : WorkerChain(w)
    \/ \E w \in Workers : WorkerPut(w)

SpecParallel == InitParallel /\ [][NextParallel]_vars

\* the parallel workers over lines that more than one parser accepts
ChainCorpus == ParallelCorpus \cup {SyslogLine}

NextChain ==
    \/ \E w \in Workers, l \in ChainCorpus, source \in ParallelSources :
          WorkerLookup(w, l, source)
    \/ \E w \in Workers : WorkerChain(w)
    \/ \E w \in Workers : WorkerPut(w)

SpecChain == InitParallel /\ [][NextChain]_vars

\* the work-queue engine over one vector of lines
InitQueue ==
    /\ with_config(CHOOSE cfg \in Configs : cfg.enable_format_caching, << >>)
    /\ now = 0 /\ result = NoResult /\ call = NoCall /\ run = NoRun /\ ops = 0
    /\ CIdle /\ SIdle /\ PIdle /\ TIdle /\ KIdle /\ FIdle /\ LIdle
    /\ qconfig \in QueueConfigs
    /\ qlines \in UNION { [1..n -> QueueCorpus] : n \in 0..MaxQueueLines }
    /\ producer = [next |-> 1, pc |-> "send"]
    /\ work_queue = << >>
    /\ result_queue = << >>
    /\ collected = << >>
    /\ collector = "recv"

NextQueue ==
    \/ Produce
    \/ \E w \in Workers : ProduceDirect(w)
    \/ ProducerDone
    \/ \E w \in Workers : QueueRecv(w)
    \/ \E w \in Workers : QueueRecvClosed(w)
    \/ \E w \in Workers : QueueLookup(w)
    \/ \E w \in Workers : WorkerChain(w)
    \/ \E w \in Workers : QueuePut(w)
    \/ \E w \in Workers : QueueSend(w)
    \/ \E w \in Workers : QueueSendDirect(w)
    \/ Collect
    \/ CollectorReturn

SpecQueue == InitQueue /\ [][NextQueue]_vars

\* the same engine on threads the operating system keeps scheduling: while
\* some thread can take a step, a step is taken
SpecQueueLive == SpecQueue /\ WF_vars(NextQueue)

\* parse_stream under every memory budget, a budget of 0 bytes included
BudgetConfigs ==
    [batch_size : 1..MaxBatchSize, memory_limit_bytes : 0..MaxMemoryLimit]

InitBudget ==
    /\ with_config(CHOOSE cfg \in StreamTangoConfigs : cfg.enable_streaming, << >>)
    /\ now = 0 /\ result = NoResult /\ call = NoCall /\ run = NoRun /\ ops = 0
    /\ CIdle /\ PIdle /\ QIdle /\ TIdle /\ KIdle /\ FIdle /\ LIdle
    /\ sconfig \in BudgetConfigs
    /\ current_memory_usage = 0
    /\ sstats = ParsingStatistics_new
    /\ spc = "idle"
    /\ ssource = << >>
    /\ input = << >>
    /\ batch = << >>
    /\ line_number = 1
    /\ results = << >>
    /\ flushed = {}

NextBudget ==
    \/ \E source \in {SrcA, SrcC} : ParseReader(source)
    \/ \E item \in StreamItems : StreamReadLine(item)
    \/ StreamEndOfStream
    \/ StreamIoError

SpecBudget == InitBudget /\ [][NextBudget]_vars

\* parse_streams_parallel over NumStreams streams
InitStreams ==
    /\ with_config(CHOOSE cfg \in Configs : cfg.enable_format_caching, << >>)
    /\ now = 0 /\ result = NoResult /\ call = NoCall /\ run = NoRun /\ ops = 0
    /\ CIdle /\ SIdle /\ PIdle /\ QIdle /\ KIdle /\ FIdle /\ LIdle
    /\ pstreams \in { [i \in StreamIds |-> NewStream(f[i])] :
                         f \in [StreamIds -> ParallelSources] }
    /\ poutput = NoOutput

NextStreams ==
    \/ \E i \in StreamIds, l \in ParStreamCorpus : ParStreamRead(i, l)
    \/ \E i \in StreamIds : ParStreamChain(i)
    \/ \E i \in StreamIds : ParStreamPut(i)
    \/ \E i \in StreamIds : ParStreamEnd(i)
    \/ \E i \in StreamIds : ParStreamIoError(i)
    \/ ParStreamsReturn

SpecStreams == InitStreams /\ [][NextStreams]_vars

\* the threads of the parallel engine on its two locks
InitLock ==
    /\ with_config(CHOOSE cfg \in Configs : cfg.enable_format_caching, << >>)
    /\ now = 0 /\ result = NoResult /\ call = NoCall /\ run = NoRun /\ ops = 0
    /\ CIdle /\ SIdle /\ PIdle /\ QIdle /\ TIdle /\ KIdle /\ FIdle
    /\ cache_lock = [writer |-> 0, readers |-> {}]
    /\ stats_mutex = 0
    /\ lthreads = [t \in LockThreads |-> IdleThread]

NextLock ==
    \/ \E t \in LockThreads, l \in {JsonLine, PlainLine},
          op \in {"get", "stats", "clear", "global_statistics"} : LockBegin(t, op, l)
    \/ \E t \in LockThreads : LockAcquire(t)
    \/ \E t \in LockThreads : LockAccessRelease(t)
    \/ \E t \in LockThreads : LockChain(t)

SpecLock == InitLock /\ [][NextLock]_vars

\* one FormatCache under direct calls
InitCache ==
    /\ config = CHOOSE cfg \in Configs : cfg.enable_format_caching
    /\ profile_parsers = << >>
    /\ \E sc \in CacheScenarios : format_cache = Prefilled(sc.settings, sc.fill)
    /\ stats = ParsingStatistics_new
    /\ now = 0 /\ result = NoResult /\ call = NoCall /\ run = NoRun /\ ops = 0
    /\ CIdle /\ SIdle /\ PIdle /\ QIdle /\ TIdle /\ KIdle /\ FIdle /\ LIdle

NextCache ==
    \/ \E source \in CacheSources : CacheGet(source)
    \/ \E source \in CacheSources, p \in CachePayloads : CachePut(source, p)
    \/ CacheClear
    \/ CacheAdapt
    \/ CacheTick

SpecCache == InitCache /\ [][NextCache]_vars

\* one StatisticsMonitor under direct calls
InitMonitor ==
    /\ DInit /\ CIdle /\ SIdle /\ PIdle /\ QIdle /\ TIdle /\ KIdle /\ LIdle /\ RIdle /\ GIdle /\ XIdle
    /\ config.enable_format_caching /\ profile_parsers = << >>
    /\ \E enabled \in BOOLEAN, interval \in {1, 2} :
          monitor = StatisticsMonitor_with_settings(enabled, interval)
    /\ mlog = NoCalls

NextMonitor ==
    \/ \E f \in {"Json", "PlainText"}, t \in 0..MaxMicros : MonitorRecordSuccess(f, t)
    \/ \E e \in {"JsonSyntaxError", "PatternMatchError"}, t \in 0..MaxMicros :
          MonitorRecordFailure(e, t)
    \/ \E t \in 0..MaxMicros : MonitorRecordPlainTextFallback(t)
    \/ MonitorUpdateMemoryStats
    \/ MonitorReset

SpecMonitor == InitMonitor /\ [][NextMonitor]_vars

\* the dispatcher on every path, and the line reading of the engines
RawCorpus == {JsonLine, MalformedJsonLine, ApacheLine, PlainLine}

InitRaw ==
    /\ with_config(CHOOSE cfg \in Configs : cfg.enable_format_caching,
                   <<[name |-> <<"a", "*">>, ptype |-> "Apache"]>>)
    /\ now = 0 /\ result = NoResult /\ call = NoCall /\ run = NoRun /\ ops = 0
    /\ CIdle /\ SIdle /\ PIdle /\ QIdle /\ TIdle /\ KIdle /\ LIdle /\ MIdle /\ RIdle /\ GIdle /\ XIdle

NextRaw ==
    \/ \E l \in RawCorpus, source \in {SrcA, SrcC} : ParseLineWithSource(l, source)
    \/ \E chunk \in ReadChunks : ReadLine(chunk)

SpecRaw == InitRaw /\ [][NextRaw]_vars

\* detect_format calls between the dispatches that fill and age the cache
NextDetect ==
    \/ \E l \in RawCorpus, source \in {SrcA, SrcC} : ParseLineWithSource(l, source)
    \/ \E l \in RawCorpus, source \in {SrcA, SrcC} : ClassifierDetectFormat(l, source)
    \/ Tick

SpecDetect == InitRaw /\ [][NextDetect]_vars

\* a TangoParser constructed with any of the configurations, then
\* reconfigured and validated
InitConfig ==
    /\ with_config(CHOOSE cfg \in Configs : cfg.enable_format_caching, << >>)
    /\ now = 0 /\ result = NoResult /\ call = NoCall /\ run = NoRun /\ ops = 0
    /\ CIdle /\ SIdle /\ PIdle /\ QIdle /\ TIdle /\ KIdle /\ LIdle
    /\ MIdle /\ RIdle /\ XIdle
    /\ \E cfg \in TangoConfigs :
          /\ tango = TangoParser_with_config(cfg)
          /\ tres = [op |-> "with_config", config |-> cfg, ret |-> [result |-> "Self"]]

NextConfig ==
    \/ \E new_config \in TangoConfigs : UpdateConfig(new_config)
    \/ ValidateConfig

SpecConfig == InitConfig /\ [][NextConfig]_vars

(***************************************************************************)
(* ResilientParser (resilient_parser.rs): parse_lines over a vector, with  *)
(* the fallback chain of parse_line_with_fallback and the parser's own     *)
(* StatisticsMonitor.                                                      *)
(***************************************************************************)
parse_line_with_fallback(l, n) ==
    IF l.brace /\ JsonParse(l).success
    THEN with_line_number(JsonParse(l), n)
    ELSE IF LogfmtCanParse(l) /\ LogfmtParse(l).success
    THEN with_line_number(LogfmtParse(l), n)
    ELSE IF PatternCanParse(l) /\ PatternParse(l).success
    THEN with_line_number(PatternParse(l), n)
    ELSE with_line_number(PlainTextParse(l), n)

\* the statistics update of parse_lines for one result (no parser sets a
\* processing time, so 0 is recorded)
resilient_record(m, r) ==
    IF r.success
    THEN StatisticsMonitor_record(m, record_success(m.stats, r.format_type), 0)
    ELSE IF r.error # NoError
    THEN StatisticsMonitor_record(m, record_failure(m.stats, r.error), 0)
    ELSE m

\* the loop of parse_lines from position i on, enumerate starting at 0
RECURSIVE parse_lines_from(_, _, _, _)
parse_lines_from(m, lines, i, acc) ==
    IF i >= Len(lines)
    THEN [monitor |-> m, results |-> acc]
    ELSE LET r == parse_line_with_fallback(lines[i + 1], i + 1)
         IN parse_lines_from(resilient_record(m, r), lines, i + 1, Append(acc, r))

\* a loop that gives up at the first line no structured parser accepts
parse_lines_until_malformed(m, lines) ==
    LET bad == { i \in 1..Len(lines) :
                   parse_line_with_fallback(lines[i], i).format_type = "PlainText" }
        stop == IF bad = {} THEN Len(lines)
                ELSE (CHOOSE i \in bad : \A k \in bad : i <= k) - 1
    IN parse_lines_from(m, SubSeq(lines, 1, stop), 0, << >>)

parse_lines(m, lines) == parse_lines_from(m, lines, 0, << >>)

ResilientCorpus == {MalformedJsonLine, JsonLine, LogfmtLine}

ResilientInputs == UNION { [1..n -> ResilientCorpus] : n \in 0..MaxResilientLines }

\* ResilientParser::parse_lines(lines)
ResilientParseLines(lines) ==
    /\ xcalls < MaxResilientCalls
    /\ xlines' = lines
    /\ xresults' = parse_lines(monitor, lines).results
    /\ monitor' = parse_lines(monitor, lines).monitor
    /\ xcalls' = xcalls + 1
    /\ UNCHANGED mlog
    /\ UNCHANGED <<dvars, cvars, svars, pvars, qvars, tvars, kvars, lvars, rvars, gvars>>

\* ResilientParser::with_monitoring
InitResilient ==
    /\ with_config(CHOOSE cfg \in Configs : cfg.enable_format_caching, << >>)
    /\ now = 0 /\ result = NoResult /\ call = NoCall /\ run = NoRun /\ ops = 0
    /\ CIdle /\ SIdle /\ PIdle /\ QIdle /\ TIdle /\ KIdle /\ LIdle /\ RIdle /\ GIdle /\ XIdle
    /\ \E enabled \in BOOLEAN, interval \in {1, 2} :
          monitor = StatisticsMonitor_with_settings(enabled, interval)
    /\ mlog = NoCalls

NextResilient == \E lines \in ResilientInputs : ResilientParseLines(lines)

SpecResilient == InitResilient /\ [][NextResilient]_vars

(***************************************************************************)
(* Properties.                                                             *)
(***************************************************************************)
\* some configured profile name equals or glob-matches the source
MatchesProfile(pp, source) ==
    \E i \in 1..Len(pp) :
        pp[i].name = source \/ source_matches_pattern(source, pp[i].name)

\* a structured stage looked at the line and its parser failed on it
FailedStageErrors(l) ==
    { JsonParse(l).error : x \in { y \in {1} : l.brace /\ ~JsonParse(l).success } }
    \cup { PatternParse(l).error :
             x \in { y \in {1} : PatternCanParse(l) /\ ~PatternParse(l).success } }
    \cup { LogfmtParse(l).error :
             x \in { y \in {1} : LogfmtCanParse(l) /\ ~LogfmtParse(l).success } }

\* C1: every dispatch through parse_line_with_source whose source resolves
\* to no profile returns success = true, with caching enabled or disabled
\* and after any earlier dispatches.
C1_DispatchTotal ==
    (ops > 0 /\ call.profile = NoProfile) => result.success

\* C2: when the cache holds for the source a format whose parser rejects
\* the line, the returned result's format equals the format a fresh
\* cascade with no cache produces for that line.
C2_RejectedCachedFormatFallsThrough ==
    (ops > 0 /\ call.hit /\ ~ParseWith(call.format, result.raw).success)
        => result.format_type
             = ParseWith(detect_format(result.raw), result.raw).format_type

\* C3: when a structured stage failed on the line and the dispatcher fell
\* through to a later parser, the result has success = true,
\* parse_error = true and error set to the failed stage's error.
C3_FallThroughMarked ==
    (ops > 0 /\ call.classified /\ ~call.hit /\ FailedStageErrors(result.raw) # {})
        => /\ result.success
           /\ result.parse_error = "true"
           /\ result.error \in FailedStageErrors(result.raw)

\* C4: after N >= 1 successive dispatches of identically-formatted lines
\* for one source with caching enabled, the cache entry of that source has
\* sample_count >= N.
C4_SampleCountCountsHits ==
    (config.enable_format_caching /\ run.n >= 1)
        => \E e \in format_cache.cache :
              e.source = run.source /\ e.sample_count >= run.n

\* C5: a dispatch whose source matches a configured profile (exact or
\* glob) does not invoke the classifier, leaves the format cache (entries,
\* hits, misses) unchanged, and returns the result of a matching profile's
\* parser unchanged, a failed result included.
C5_ProfileAuthoritative ==
    [][ (ops' = ops + 1 /\ MatchesProfile(profile_parsers, call'.source))
          => /\ format_cache' = format_cache
             /\ ~call'.classified
             /\ \E i \in 1..Len(profile_parsers) :
                   /\ \/ profile_parsers[i].name = call'.source
                      \/ source_matches_pattern(call'.source, profile_parsers[i].name)
                   /\ result' = ProfileParse(profile_parsers[i].ptype, result'.raw)
      ]_vars

\* a glob-matched profile has rejected a line while the cache holds entries
C5_Witness ==
    /\ ops > 0
    /\ call.profile # NoProfile
    /\ profile_parsers[call.profile].name # call.source
    /\ ~result.success
    /\ format_cache.cache # {}

\* C6: when the source of a stream read through parse_reader resolves to a
\* configured profile, every line of the stream is parsed by that profile.
C6_ReaderUsesProfile ==
    (spc = "ok" /\ get_profile_parser_for_source(profile_parsers, ssource) # NoProfile)
        => /\ Len(results) = Len(input)
           /\ \A i \in 1..Len(results) :
                 [results[i] EXCEPT !.line_number = NoLineNumber]
                   = ProfileParse(
                       profile_parsers[
                         get_profile_parser_for_source(profile_parsers, ssource)].ptype,
                       input[i].line)

C8_StreamNumbering ==
    (spc = "ok" /\ config.enable_streaming)
        => /\ Len(results) = Len(input)
           /\ \A i \in 1..Len(results) :
                 /\ results[i].line_number = i
                 /\ results[i].raw = input[i].line

\* a stream of at least three lines that saw a full batch, a memory flush
\* and a final partial batch
C8_Witness ==
    /\ spc = "ok"
    /\ config.enable_streaming
    /\ Len(input) >= 3
    /\ {"size", "memory", "final"} \subseteq flushed

\* C9: after parse_stream has returned, at end of stream or with an I/O
\* error of the reader, the byte tally is 0.
C9_TallyResetOnReturn ==
    (spc \in {"ok", "err"} /\ config.enable_streaming) => current_memory_usage = 0

RECURSIVE SumHits(_)
SumHits(ws) ==
    IF ws = {} THEN 0
    ELSE LET w == CHOOSE x \in ws : TRUE
         IN workers[w].hits + SumHits(ws \ {w})

\* C10: in every interleaving of the workers on the shared cache the
\* cache's hit count equals the sum of the hits the workers observed and
\* each source has at most one entry.
C10_SharedCacheConsistent ==
    /\ shared_cache.cache_hits = SumHits(Workers)
    /\ \A e1, e2 \in shared_cache.cache : e1.source = e2.source => e1 = e2

\* a worker is about to put a source that another worker has cached in the
\* meantime, while another worker has seen a hit
C10_Witness ==
    \E w1, w2 \in Workers :
        /\ w1 # w2
        /\ workers[w1].pc = "put"
        /\ HasKey(shared_cache.cache, workers[w1].source)
        /\ workers[w2].hits >= 1
        /\ shared_cache.cache_hits >= 1

\* C11: when every work item is the same JSON line of one source and the
\* workers start on an empty shared cache, then once all items are done
\* the cache holds exactly one entry and all lookups but one were hits.
C11_OnlyOneLookupMisses ==
    (/\ identical
     /\ taken >= 2
     /\ \A w \in Workers : workers[w].pc = "start")
        => /\ Cardinality(shared_cache.cache) = 1
           /\ shared_cache.cache_hits >= taken - 1

\* C12: parse_lines_producer_consumer over K lines returns K results; each
\* line number 1..K is on exactly one of them, and that result's raw text
\* is the line submitted with that number.
C12_QueueDeliversEachLineOnce ==
    collector = "returned"
        => /\ Len(collected) = Len(qlines)
           /\ \A n \in 1..Len(qlines) :
                 \E i \in 1..Len(collected) :
                    /\ collected[i].line_number = n
                    /\ collected[i].raw = qlines[n]
                    /\ \A j \in 1..Len(collected) :
                          collected[j].line_number = n => j = i

\* a call with two workers over three lines, not all alike, returned its
\* results out of input order
C12_Witness ==
    /\ collector = "returned"
    /\ qconfig.num_threads >= 2
    /\ Len(qlines) >= 3
    /\ qlines[1] # qlines[2]
    /\ \E i, j \in 1..Len(collected) :
          i < j /\ collected[i].line_number > collected[j].line_number

\* C13: the i-th result set parse_streams_parallel returns holds the
\* results of the i-th stream, in that stream's input order, numbered
\* 1..K_i independently of the other streams.
C13_StreamResultsPerStream ==
    poutput.status = "ok"
        => /\ Len(poutput.sets) = Len(pstreams)
           /\ \A i \in 1..Len(pstreams) :
                 /\ Len(poutput.sets[i]) = Len(pstreams[i].input)
                 /\ \A j \in 1..Len(poutput.sets[i]) :
                       /\ poutput.sets[i][j].line_number = j
                       /\ poutput.sets[i][j].raw = pstreams[i].input[j]

\* two streams of one source and of different lengths and contents returned,
\* the second having finished a line on a format the first had cached
C13_Witness ==
    /\ poutput.status = "ok"
    /\ pstreams[1].source = pstreams[2].source
    /\ Len(pstreams[1].input) = 2
    /\ Len(pstreams[2].input) = 1
    /\ pstreams[1].input[1] # pstreams[2].input[1]
    /\ shared_cache.cache_hits >= 1

\* C15: every get, put, clear and stats of the shared cache happens while
\* the accessing thread holds the cache's exclusive (write) lock; inside
\* the section it holds no other lock, and a thread waiting for the cache
\* lock does not hold it already.
C15_ExclusiveSection ==
    \A t \in DOMAIN lthreads :
        /\ (lthreads[t].pc = "holding"
              /\ lthreads[t].op \in {"get", "put", "clear", "stats"})
             => (cache_lock.writer = t /\ stats_mutex # t)
        /\ (lthreads[t].pc = "acquire"
              /\ lthreads[t].op \in {"get", "put", "clear", "stats"})
             => (cache_lock.writer # t /\ t \notin cache_lock.readers)

\* C16: a get of a cached source removes the entry, counts one miss and one
\* eviction and returns nothing exactly when the entry is older than
\* max_age_seconds and has fewer than min_samples_for_stability samples;
\* otherwise (in particular with enough samples, whatever its age) the entry
\* stays and the get is a hit.  No other entry is touched.
C16_GetRemovesOnlyStale ==
    (kop.op = "get" /\ HasKey(kop.before.cache, kop.source))
        => LET b == kop.before
               e == Lookup(b.cache, kop.source)
               old == now - e.last_updated > b.max_age_seconds
               few == e.sample_count < b.min_samples_for_stability
           IN /\ Remove(format_cache.cache, kop.source) = Remove(b.cache, kop.source)
              /\ (old /\ few)
                   => /\ ~HasKey(format_cache.cache, kop.source)
                      /\ ~kop.hit
                      /\ format_cache.cache_misses = b.cache_misses + 1
                      /\ format_cache.cache_evictions = b.cache_evictions + 1
                      /\ format_cache.cache_hits = b.cache_hits
              /\ ~(old /\ few)
                   => /\ e \in format_cache.cache
                      /\ kop.hit
                      /\ format_cache.cache_hits = b.cache_hits + 1
                      /\ format_cache.cache_evictions = b.cache_evictions
                      /\ format_cache.cache_misses = b.cache_misses

\* a get has just removed an entry that was old and had too few samples
C16_Witness ==
    /\ kop.op = "get"
    /\ \E e \in kop.before.cache :
          /\ e.source = kop.source
          /\ now - e.last_updated > kop.before.max_age_seconds
          /\ e.sample_count < kop.before.min_samples_for_stability
    /\ ~HasKey(format_cache.cache, kop.source)
    /\ format_cache.cache_evictions = kop.before.cache_evictions + 1

\* C17: a put for a source that is already cached, also when the cache is
\* at capacity, keeps that entry and updates it in place: the format is
\* replaced, the confidence becomes the average of the old and the new one,
\* the new field mappings are merged over the old ones and sample_count
\* grows by one.
C17_PutUpdatesInPlace ==
    (kop.op = "put" /\ HasKey(kop.before.cache, kop.source))
        => /\ HasKey(format_cache.cache, kop.source)
           /\ LET e == Lookup(kop.before.cache, kop.source)
                  n == Lookup(format_cache.cache, kop.source)
              IN /\ n.format_type = kop.payload.format_type
                 /\ n.confidence = (e.confidence + kop.payload.confidence) \div 2
                 /\ n.timestamp_format = kop.payload.timestamp_format
                 /\ n.field_mappings = MergeMappings(e.field_mappings,
                                                     kop.payload.field_mappings)
                 /\ n.sample_count = e.sample_count + 1

C19_CacheBounded ==
    kop.op = "put" => Cardinality(format_cache.cache) <= format_cache.max_entries

\* C20: adapt_parameters keeps the caps: applied to a cache whose
\* max_entries is at most 5000 and whose max_age_seconds is at most 7200 it
\* leaves max_entries at most 5000 and max_age_seconds at most 7200.
C20_AdaptKeepsCaps ==
    (/\ kop.op = "adapt_parameters"
     /\ kop.before.max_entries <= AdaptMaxEntriesCap
     /\ kop.before.max_age_seconds <= AdaptMaxAgeCap)
        => /\ format_cache.max_entries <= AdaptMaxEntriesCap
           /\ format_cache.max_age_seconds <= AdaptMaxAgeCap

RECURSIVE SumOver(_, _)
SumOver(f, keys) ==
    IF keys = {} THEN 0
    ELSE LET k == CHOOSE x \in keys : TRUE
         IN f[k] + SumOver(f, keys \ {k})

\* C21: after S record_success, F record_failure and P
\* record_plain_text_fallback calls on a StatisticsMonitor, in any order,
\* total_lines = S + F + P, successful_parses = S + P, failed_parses = F and
\* the format distribution sums to S + P.
C21_MonitorCounts ==
    mlog.last # "none"
        => /\ monitor.stats.total_lines = mlog.S + mlog.F + mlog.P
           /\ monitor.stats.successful_parses = mlog.S + mlog.P
           /\ monitor.stats.failed_parses = mlog.F
           /\ SumOver(monitor.stats.format_distribution, FormatTypes) = mlog.S + mlog.P

\* one call of each kind has been made
C21_Witness ==
    /\ mlog.last # "none"
    /\ mlog.S >= 1 /\ mlog.F >= 1 /\ mlog.P >= 1
    /\ monitor.stats.total_lines = mlog.S + mlog.F + mlog.P

\* C24: StatisticsMonitor.reset, applied in any reachable state, leaves in
\* one step every counter at zero, both distributions empty, all timing
\* and memory values at zero and the report cursor at zero.
C24_ResetClearsAll ==
    mlog.last = "reset"
        => /\ monitor.stats = ParsingStatistics_new
           /\ monitor.stats.total_lines = 0
           /\ monitor.stats.successful_parses = 0
           /\ monitor.stats.failed_parses = 0
           /\ monitor.stats.plain_text_fallbacks = 0
           /\ \A f \in FormatTypes : monitor.stats.format_distribution[f] = 0
           /\ \A e \in ErrorKinds : monitor.stats.error_distribution[e] = 0
           /\ monitor.processing_time_micros.total_time = 0
           /\ monitor.processing_time_micros.min_time = 0
           /\ monitor.processing_time_micros.max_time = 0
           /\ monitor.processing_time_micros.avg_time[1] = 0
           /\ \A k \in DOMAIN monitor.memory_stats : monitor.memory_stats[k] = 0
           /\ monitor.last_report_line = 0
           /\ monitor.monitoring_enabled = mlog.before.monitoring_enabled
           /\ monitor.report_interval = mlog.before.report_interval

\* a reset has just been applied to a monitor with counts, timings and a
\* report cursor that had moved
C24_Witness ==
    /\ mlog.last = "reset"
    /\ mlog.before.stats.total_lines > 0
    /\ mlog.before.processing_time_micros.total_time > 0
    /\ mlog.before.last_report_line > 0
    /\ monitor.last_report_line = 0

\* C22: a malformed line (a structured stage fails on it) that the
\* dispatcher recovers, returning a successful result, is counted in both
\* metrics: the dispatch increases failed_parses by 1 and successful_parses
\* by 1.
C22_RecoveredLineCountedTwice ==
    [][ (/\ ops' = ops + 1
         /\ config.enable_statistics
         /\ call'.profile = NoProfile
         /\ FailedStageErrors(result'.raw) # {}
         /\ result'.success)
          => /\ stats'.failed_parses = stats.failed_parses + 1
             /\ stats'.successful_parses = stats.successful_parses + 1
      ]_vars

\* C23: with statistics enabled, after parse_reader has processed the K
\* lines of a stream on a fresh TangoParser, get_statistics reports
\* total_lines = K.
C23_MonitorObservesReader ==
    (spc = "ok" /\ config.enable_statistics) => stats.total_lines = Len(input)

\* C25: for every line L handed to parse_line_with_source, whichever path
\* the dispatch takes (profile, cached format, cascade, plain text, failed
\* result), the returned event's raw is L; and the line the engines hand
\* to their parsers is what read_line delivered with only a trailing "\n"
\* or "\r\n" removed.
C25_RawPreserved ==
    [][ /\ \A l \in RawCorpus, source \in {SrcA, SrcC} :
              ParseLineWithSource(l, source) => result'.raw = l
        /\ rraw' = IF EndsWith(rchunk', <<"\r", "\n">>)
                   THEN SubSeq(rchunk', 1, Len(rchunk') - 2)
                   ELSE IF EndsWith(rchunk', <<"\n">>)
                   THEN SubSeq(rchunk', 1, Len(rchunk') - 1)
                   ELSE rchunk'
      ]_vars

\* a dispatch through a cached format has returned a failed result, and a
\* line ending in "\r" before the end of the stream has been read
C25_Witness ==
    /\ ops > 0 /\ call.hit /\ ~result.success /\ result.raw = PlainLine
    /\ Len(rchunk) > 0 /\ rchunk[Len(rchunk)] = "\r"
    /\ rraw = rchunk

\* C26: a dispatch whose source resolves to no profile never returns an
\* event whose format_type is a Profile tag: neither the dispatch that has
\* just run, nor any dispatch of a line of the corpus, from the current
\* parser, for a profile-less source whose cache entry holds a Profile tag
\* (written with cache_format).
C26_NoProfileTagWithoutProfile ==
    /\ (ops > 0 /\ call.profile = NoProfile) => result.format_type \notin ProfileTags
    /\ \A source \in {SrcA, SrcC}, tag \in ProfileTags, l \in RawCorpus :
          \A c \in cache_format(format_cache, source, tag, now) :
             \A o \in parse_line_with_source(config, profile_parsers, c, stats,
                                             l, source, now) :
                o.profile = NoProfile => o.result.format_type \notin ProfileTags

\* a dispatch without profile has just been served from the cache, and the
\* same source with the Apache tag cached dispatches an Apache line through
\* a cache hit to a plain-text event
C26_Witness ==
    /\ ops > 0 /\ call.profile = NoProfile /\ call.hit
    /\ result.format_type \notin ProfileTags
    /\ \E c \in cache_format(format_cache, call.source, ProfileTag("Apache"), now) :
          \E o \in parse_line_with_source(config, profile_parsers, c, stats,
                                          ApacheLine, call.source, now) :
             /\ o.profile = NoProfile /\ o.hit /\ o.format = ProfileTag("Apache")
             /\ o.result.format_type = "PlainText"

\* the configurations C27 calls invalid: an invalid profile definition, a
\* zero cache_max_entries, or a zero batch size
InvalidConfig(cfg) ==
    \/ \E pc \in cfg.profiles : create_profile_parser(pc) # "Ok"
    \/ cfg.cache_max_entries = 0
    \/ cfg.streaming_config.batch_size = 0
    \/ cfg.parallel_config.batch_size = 0

\* C27: with_config and update_config each reject with ConfigurationError
\* every invalid configuration, so the TangoParser never holds one.
C27_InvalidConfigRejected ==
    /\ (tres.op \in {"with_config", "update_config"} /\ InvalidConfig(tres.config))
          => tres.ret.result = "ConfigurationError"
    /\ ~InvalidConfig(tango.config)

\* C28: parse_lines over K lines, with malformed lines at any positions,
\* returns K results in input order, numbered 1..K, and every line, the
\* lines after a malformed one included, has been parsed: its result is
\* successful and a well-formed JSON or logfmt line is parsed as such.
C28_ResilientContinues ==
    xcalls > 0 =>
        /\ Len(xresults) = Len(xlines)
        /\ \A i \in 1..Len(xlines) :
              /\ xresults[i].raw = xlines[i]
              /\ xresults[i].line_number = i
              /\ xresults[i].success
              /\ xlines[i] = JsonLine => xresults[i].format_type = "Json"
              /\ xlines[i] = LogfmtLine => xresults[i].format_type = "Logfmt"

\* a vector of the longest length that starts with a malformed JSON line
\* and ends with a well-formed one has been parsed
C28_Witness ==
    /\ xcalls > 0
    /\ Len(xlines) = MaxResilientLines
    /\ xlines[1] = MalformedJsonLine
    /\ xlines[Len(xlines)] = JsonLine
    /\ xresults[1].format_type = "PlainText"
    /\ xresults[Len(xlines)].format_type = "Json"
    /\ monitor.stats.total_lines >= MaxResilientLines

C30_TallyBelowBudget ==
    spc = "reading" /\ config.enable_streaming
        => current_memory_usage < sconfig.memory_limit_bytes

\* C30, amended: each time parse_stream is about to read the next line,
\* the running tally is below memory_limit_bytes, or, under a budget of 0
\* bytes, is 0 (every line is flushed as soon as it is read).
C30_TallyBelowPositiveBudget ==
    spc = "reading" /\ config.enable_streaming
        => IF sconfig.memory_limit_bytes = 0
           THEN current_memory_usage = 0
           ELSE current_memory_usage < sconfig.memory_limit_bytes

\* the budget has flushed a batch that the batch size had not, and the
\* engine is about to read again with a tally that has grown since
C30_Witness ==
    /\ spc = "reading" /\ config.enable_streaming
    /\ "memory" \in flushed
    /\ current_memory_usage > 0
    /\ batch # << >>

\* C31: with monitoring enabled and report interval N >= 1, the status
\* lines printed since creation or the last reset number one per N lines
\* recorded since then: after k*N recorded lines exactly k, and between
\* two multiples of N no further one.
C31_StatusLinePerInterval ==
    (mlog.last # "none" /\ monitor.monitoring_enabled) =>
        LET printed_before == IF "before" \in DOMAIN mlog
                              THEN mlog.before.status_lines ELSE 0
        IN monitor.status_lines - printed_before
              = monitor.stats.total_lines \div monitor.report_interval

\* a monitor that had printed a status line was reset and has printed the
\* next one after N further lines
C31_Witness ==
    /\ monitor.monitoring_enabled
    /\ mlog.last \in {"record_success", "record_failure", "record_plain_text_fallback"}
    /\ "before" \in DOMAIN mlog
    /\ mlog.before.status_lines = 1
    /\ monitor.stats.total_lines = monitor.report_interval
    /\ monitor.status_lines = 2

\* C32: in a parallel run whose lines all share one source, every finished
\* result carries the format of its own line's content (a JSON line Json,
\* a logfmt line Logfmt, an unstructured line PlainText), whatever other
\* lines have put into the shared cache.
C32_FormatOfOwnLine ==
    (/\ \A e \in shared_cache.cache : e.source = SrcA
     /\ \A w \in Workers : workers[w].line_number > 0 => workers[w].source = SrcA)
    => \A w \in Workers :
          (workers[w].pc = "start" /\ workers[w].line_number > 0)
          => workers[w].result.format_type =
                CASE workers[w].line = JsonLine -> "Json"
                  [] workers[w].line = LogfmtLine -> "Logfmt"
                  [] OTHER -> "PlainText"

\* C35: no worker runs a format parser on its line while it holds the
\* shared cache's exclusive section.
C35_NoParserInsideSection ==
    \A t \in DOMAIN lthreads : ~lthreads[t].parsed_locked

\* C36: parse_lines_producer_consumer always terminates: for every number
\* of lines, worker count and queue capacity the producer ends, every
\* worker exits and the caller's collecting loop ends and the call returns.
C36_QueueTerminates ==
    <>(/\ collector = "returned"
       /\ producer.pc = "done"
       /\ \A w \in QueueWorkers : workers[w].pc = "exit")

\* a call over the longest vector, on rendezvous channels of capacity 0
\* and more than one worker, has returned
C36_Witness ==
    /\ collector = "returned"
    /\ qconfig.queue_capacity = 0
    /\ qconfig.num_threads >= 2
    /\ Len(qlines) = MaxQueueLines
    /\ Len(collected) = MaxQueueLines

\* C33: a dispatch that reaches detect_format_with_caching with an entry
\* for the source that is not stale (not both older than max_age_seconds
\* and short of min_samples_for_stability) uses the cached format,
\* whatever the line, and leaves the entry as it was; on a miss it uses
\* the format detected for the line and the cache then holds that format
\* for the source.
C33_CachedFormatReturned ==
    [][ (ops' = ops + 1 /\ call'.classified /\ config.enable_format_caching) =>
          LET source == call'.source
              cached == { e \in format_cache.cache :
                            /\ e.source = source
                            /\ ~(/\ now - e.last_updated > format_cache.max_age_seconds
                                 /\ e.sample_count
                                      < format_cache.min_samples_for_stability) }
          IN IF cached # {}
             THEN /\ \A e \in cached : call'.format = e.format_type
                  /\ cached \subseteq format_cache'.cache
                  /\ call'.hit
             ELSE /\ call'.format = detect_format(result'.raw)
                  /\ ~call'.hit
                  /\ \E e \in format_cache'.cache :
                        e.source = source /\ e.format_type = detect_format(result'.raw)
      ]_vars

\* a dispatch has used a cached format that is not the format of its line
C33_Witness ==
    /\ ops > 0 /\ call.classified /\ call.hit
    /\ call.format # detect_format(result.raw)
    /\ \E e \in format_cache.cache : e.source = call.source /\ e.format_type = call.format

C37_ChainAgreesWithDetectFormat ==
    \A w \in Workers :
        (/\ workers[w].pc = "put"
         /\ \A e \in shared_cache.cache : e.source # workers[w].source)
            => workers[w].pending.format_type = detect_format(workers[w].line)

\* C38: the profile a dispatch selects for a source is fixed by the
\* configured profiles: the exactly-named one if present, otherwise one and
\* the same matching glob whatever order the profile map iterates in, also
\* when several globs match.
C38_ProfileResolutionDeterministic ==
    (ops > 0 /\ call.profile # NoProfile)
        => \A pp \in ProfileConfigs :
              {pp[i] : i \in 1..Len(pp)}
                    = {profile_parsers[i] : i \in 1..Len(profile_parsers)}
                => pp[get_profile_parser_for_source(pp, call.source)]
                        = profile_parsers[call.profile]

\* C39: when the parallel engine has processed K lines and no worker is
\* busy, get_global_statistics reports total_lines = K.
C39_GlobalStatisticsAggregated ==
    (taken > 0 /\ \A w \in Workers : workers[w].pc = "start")
        => get_global_statistics.total_lines = taken

\* C40: after one or more recorded processing times, min_time is the
\* smallest and max_time the largest time recorded since creation or the
\* last reset, also when a recorded time is 0.
C40_MinMaxOfRecordedTimes ==
    (mlog.last # "none" /\ mlog.times # {})
        => /\ \A t \in mlog.times : monitor.processing_time_micros.min_time <= t
           /\ monitor.processing_time_micros.min_time \in mlog.times
           /\ \A t \in mlog.times : monitor.processing_time_micros.max_time >= t
           /\ monitor.processing_time_micros.max_time \in mlog.times

=============================================================================
